---- MODULE Spec2Model ----
(***************************************************************************)
(* A model of the sikkimjobs scraper back end: the error classifier and    *)
(* the retry executor (errorHandler.js), the identity resolver, the        *)
(* duplicate check and the merge write (firestoreService.js), the          *)
(* normalizer (normalizer.js), the document parser's result                *)
(* (pdfParser.js), the per-run loop (scraper.js), the run tracker          *)
(* (scraperMetrics.js, step 7) and the run lock (runLock.js).              *)
(*                                                                         *)
(* Text is a sequence of one-character strings, so that the character      *)
(* level conversions of the code (upper-casing, stripping, replacing) are  *)
(* computed and not assumed.  The JavaScript values null and undefined are *)
(* the one-element sequence Null, which no text equals.                    *)
(***************************************************************************)
EXTENDS Integers, Sequences, FiniteSets, TLC

(***************************************************************************)
(* Bounds of the model.                                                    *)
(***************************************************************************)
MaxRuns == 2        \* scraper runs in one behaviour
MaxJobs == 2        \* listings the page yields in one run
MaxRecords == 3     \* listings processed in one behaviour, over all runs
MaxStoreFaults == 2 \* store operations that fail in one behaviour of the pipeline
MaxLockCalls == 2   \* acquireLock calls each process makes
MaxFailures == 3    \* failures of the operation handed to retryOperation
MaxKeywords == 2    \* vocabulary phrases one error message contains
MaxCalls == 3       \* run tracker calls the orchestrator makes in one run
MaxTicks == 4       \* steps of the wall clock
MaxSaved == 2       \* records saved before the duplicate lookup
MaxZeroRuns == 2    \* consecutive zero-job runs a context reports
MaxWrites == 3      \* saveJob calls made one after the other
MaxInits == 2       \* initializeRun calls each process makes
MaxAlerts == 2      \* alerts delivered to the sink
MaxChecks == 3      \* checkKillSwitch calls of one run

(***************************************************************************)
(* Text helpers.                                                           *)
(***************************************************************************)
Null == << "NULL" >>

LowerLetters == << "a","b","c","d","e","f","g","h","i","j","k","l","m",
                   "n","o","p","q","r","s","t","u","v","w","x","y","z" >>
UpperLetters == << "A","B","C","D","E","F","G","H","I","J","K","L","M",
                   "N","O","P","Q","R","S","T","U","V","W","X","Y","Z" >>
DigitChars == << "0","1","2","3","4","5","6","7","8","9" >>

Range(s) == { s[i] : i \in DOMAIN s }

IsUpper(c) == c \in Range(UpperLetters)
IsDigit(c) == c \in Range(DigitChars)
IsSpace(c) == c \in { " ", "\t", "\n" }

\* String.prototype.toUpperCase, one character
UpperChar(c) ==
    IF \E i \in DOMAIN LowerLetters : LowerLetters[i] = c
    THEN UpperLetters[CHOOSE i \in DOMAIN LowerLetters : LowerLetters[i] = c]
    ELSE c

MapSeq(s, Op(_)) == [ i \in DOMAIN s |-> Op(s[i]) ]

toUpperCase(s) == MapSeq(s, UpperChar)

\* String.prototype.trim
RECURSIVE TrimLeft(_)
TrimLeft(s) == IF s # << >> /\ IsSpace(Head(s)) THEN TrimLeft(Tail(s)) ELSE s

RECURSIVE TrimRight(_)
TrimRight(s) ==
    IF s # << >> /\ IsSpace(s[Len(s)]) THEN TrimRight(SubSeq(s, 1, Len(s) - 1)) ELSE s

trim(s) == TrimRight(TrimLeft(s))

\* String.prototype.startsWith
startsWith(s, p) == Len(s) >= Len(p) /\ SubSeq(s, 1, Len(p)) = p

\* the decimal digits of a natural number (template literal `${n}`)
RECURSIVE NatToText(_)
NatToText(n) ==
    IF n < 10 THEN << DigitChars[n + 1] >>
    ELSE NatToText(n \div 10) \o << DigitChars[(n % 10) + 1] >>

\* JavaScript truthiness of a text-or-null value
Truthy(s) == s # Null /\ s # << >>

\* the digits of a text as a number (parseInt on a digit text); -1 when not a number
RECURSIVE DigitsToNat(_, _)
DigitsToNat(s, acc) ==
    IF s = << >> THEN acc
    ELSE DigitsToNat(Tail(s),
           acc * 10 + ((CHOOSE i \in DOMAIN DigitChars : DigitChars[i] = Head(s)) - 1))

TextToNat(s) ==
    IF s # << >> /\ \A i \in DOMAIN s : IsDigit(s[i]) THEN DigitsToNat(s, 0) ELSE -1

\* s.replace(/\s+/g, rep): every run of white space becomes rep
RECURSIVE ReplaceSpaceRuns(_, _)
ReplaceSpaceRuns(s, rep) ==
    IF s = << >> THEN << >>
    ELSE IF IsSpace(Head(s))
         THEN rep \o ReplaceSpaceRuns(TrimLeft(s), rep)
         ELSE << Head(s) >> \o ReplaceSpaceRuns(Tail(s), rep)

\* s.slice(0, n)
slice0(s, n) == SubSeq(s, 1, IF Len(s) < n THEN Len(s) ELSE n)

(***************************************************************************)
(* Identity (firestoreService.js).                                         *)
(***************************************************************************)
\* the upper-casing left out: lower-case letters are stripped with the rest
normalizeAdvtNo_KeepsCase(advtNo) ==
    LET noWs == SelectSeq(advtNo, LAMBDA c : ~IsSpace(c))
        kept == SelectSeq(noWs, LAMBDA c : IsUpper(c) \/ IsDigit(c) \/ c \in {"/", "-"})
    IN  [ i \in DOMAIN kept |-> IF kept[i] \in {"/", "-"} THEN "_" ELSE kept[i] ]

normalizeAdvtNo(advtNo) ==
    LET up   == toUpperCase(advtNo)
        noWs == SelectSeq(up, LAMBDA c : ~IsSpace(c))
        kept == SelectSeq(noWs, LAMBDA c : IsUpper(c) \/ IsDigit(c) \/ c \in {"/", "-"})
    IN  MapSeq(kept, LAMBDA c : IF c \in {"/", "-"} THEN "_" ELSE c)

fallbackId(postName, issuedDate) ==
    LET date  == IF Truthy(issuedDate)
                 THEN SelectSeq(issuedDate, LAMBDA c : c # "/")
                 ELSE << "N","O","D","A","T","E" >>
        up    == toUpperCase(postName)
        kept  == SelectSeq(up, LAMBDA c : IsUpper(c) \/ IsDigit(c) \/ c = " ")
        title == slice0(ReplaceSpaceRuns(trim(kept), << "_" >>), 30)
    IN  << "S","P","S","C","_" >> \o date \o << "_" >> \o title

generateDocId(advtNo, postName, issuedDate) ==
    IF Truthy(advtNo) /\ trim(advtNo) # << >>
    THEN normalizeAdvtNo(advtNo)
    ELSE fallbackId(postName, issuedDate)

\* the key checkDuplicate looks up (its own copy of the normalization)
checkDuplicateDocId(advtNo) ==
    LET up   == toUpperCase(advtNo)
        noWs == SelectSeq(up, LAMBDA c : ~IsSpace(c))
        kept == SelectSeq(noWs,
                  LAMBDA c : IsUpper(c) \/ IsDigit(c) \/ c \in {"/", "_", "-"})
    IN  MapSeq(kept, LAMBDA c : IF c \in {"/", "-"} THEN "_" ELSE c)

(***************************************************************************)
(* Calendar dates: << year, month, day >>, or NoDate when a text is not a  *)
(* date.  Today is the day the runs of one behaviour happen on.            *)
(***************************************************************************)
NoDate == << 0, 0, 0 >>
Today == << 2025, 12, 24 >>

DaysInMonth(y, m) ==
    IF m = 2 THEN (IF (y % 4 = 0 /\ y % 100 # 0) \/ y % 400 = 0 THEN 29 ELSE 28)
    ELSE IF m \in {4, 6, 9, 11} THEN 30 ELSE 31

ValidDate(d) == /\ d[2] \in 1..12
                /\ d[3] >= 1
                /\ d[3] <= DaysInMonth(d[1], d[2])

RECURSIVE AddDays(_, _)
AddDays(d, n) ==
    IF n = 0 THEN d
    ELSE IF d[3] < DaysInMonth(d[1], d[2]) THEN AddDays(<< d[1], d[2], d[3] + 1 >>, n - 1)
    ELSE IF d[2] < 12 THEN AddDays(<< d[1], d[2] + 1, 1 >>, n - 1)
    ELSE AddDays(<< d[1] + 1, 1, 1 >>, n - 1)

DateBefore(a, b) ==
    \/ a[1] < b[1]
    \/ a[1] = b[1] /\ a[2] < b[2]
    \/ a[1] = b[1] /\ a[2] = b[2] /\ a[3] < b[3]

\* the three number fields of a date text with separator sep, or << >>
DateFields(s, sep) ==
    LET cuts == { i \in DOMAIN s : s[i] = sep }
    IN  IF Cardinality(cuts) # 2 THEN << >>
        ELSE LET i1 == CHOOSE i \in cuts : \A j \in cuts : i <= j
                 i2 == CHOOSE i \in cuts : \A j \in cuts : i >= j
             IN  << SubSeq(s, 1, i1 - 1), SubSeq(s, i1 + 1, i2 - 1),
                    SubSeq(s, i2 + 1, Len(s)) >>

\* moment(dateStr, format, true) for one day-first format: the separator, the
\* widths of day and month (2: exactly two digits, 1: one or two) and of the year
StrictDayFirst(s, sep, dmWidth, yWidth) ==
    LET f == DateFields(s, sep)
    IN  IF f = << >> THEN NoDate
        ELSE LET d == TextToNat(f[1])
                 m == TextToNat(f[2])
                 y == TextToNat(f[3])
                 okW == /\ Len(f[3]) = yWidth
                        /\ \A k \in {1, 2} :
                             IF dmWidth = 2 THEN Len(f[k]) = 2 ELSE Len(f[k]) \in {1, 2}
                 yy == IF yWidth = 4 THEN y ELSE IF y > 68 THEN 1900 + y ELSE 2000 + y
             IN  IF okW /\ d >= 0 /\ m >= 0 /\ y >= 0 /\ ValidDate(<< yy, m, d >>)
                 THEN << yy, m, d >> ELSE NoDate

\* the formats of normalizeDate, in its order
DateFormats == << << "/", 2, 4 >>, << "-", 2, 4 >>, << ".", 2, 4 >>, << "/", 1, 4 >>,
                  << "-", 1, 4 >>, << "/", 2, 2 >>, << "-", 2, 2 >> >>

\* moment(text) with no format on a text that is not ISO 8601: the engine's
\* Date parser, which reads a numeric date month first
LegacyDateParse(s) ==
    LET seps == { c \in {"/", "-", "."} : \E i \in DOMAIN s : s[i] = c }
    IN  IF Cardinality(seps) # 1 THEN NoDate
        ELSE LET f == DateFields(s, CHOOSE c \in seps : TRUE)
             IN  IF f = << >> THEN NoDate
                 ELSE LET mo == TextToNat(f[1])
                          d  == TextToNat(f[2])
                          y  == TextToNat(f[3])
                      IN  IF mo >= 0 /\ d >= 0 /\ y >= 0 /\ Len(f[3]) = 4
                             /\ ValidDate(<< y, mo, d >>)
                          THEN << y, mo, d >> ELSE NoDate

(***************************************************************************)
(* Normalizer (normalizer.js).  A raw record has every field, Null when    *)
(* the field is absent; dataComplete is "true", "false" or "undefined".    *)
(***************************************************************************)
\* new Date().getFullYear() as text
FullYearText == NatToText(Today[1])

Normalizer_normalizeAdvtNo(advtNo, now) ==
    IF ~Truthy(advtNo) \/ startsWith(advtNo, << "T","E","M","P","_" >>)
    THEN << "S","P","S","C","/" >> \o FullYearText \o << "/" >> \o NatToText(now)
    ELSE trim(toUpperCase(advtNo))

PositionNotSpecified ==
    << "P","o","s","i","t","i","o","n"," ","N","o","t"," ",
       "S","p","e","c","i","f","i","e","d" >>
UnknownPosition ==
    << "U","n","k","n","o","w","n"," ","P","o","s","i","t","i","o","n" >>
Ellipsis == << ".", ".", "." >>

normalizePostName(postName) ==
    IF ~Truthy(postName) \/ postName = UnknownPosition THEN PositionNotSpecified
    ELSE LET cleaned == ReplaceSpaceRuns(trim(postName), << " " >>)
         IN  IF Len(cleaned) > 200 THEN SubSeq(cleaned, 1, 197) \o Ellipsis ELSE cleaned

SPSCText == << "S","P","S","C" >>

normalizeDepartment(department) ==
    IF ~Truthy(department) THEN SPSCText
    ELSE slice0(ReplaceSpaceRuns(trim(department), << " " >>), 100)

\* parseInt(text, 10): the leading digits of the trimmed text
LeadingDigits(s) ==
    LET t == TrimLeft(s)
        n == IF \E i \in DOMAIN t : ~IsDigit(t[i])
             THEN (CHOOSE i \in DOMAIN t : ~IsDigit(t[i]) /\ \A j \in 1..(i - 1) : IsDigit(t[j])) - 1
             ELSE Len(t)
    IN  SubSeq(t, 1, n)

normalizeTotalPosts(totalPosts) ==
    IF ~Truthy(totalPosts) THEN 1
    ELSE LET parsed == TextToNat(LeadingDigits(totalPosts))
         IN  IF parsed < 1 THEN 1 ELSE parsed

SeeNotificationDetails ==
    << "S","e","e"," ","o","f","f","i","c","i","a","l"," ",
       "n","o","t","i","f","i","c","a","t","i","o","n"," ","f","o","r"," ",
       "q","u","a","l","i","f","i","c","a","t","i","o","n"," ",
       "d","e","t","a","i","l","s" >>

normalizeQualification(qualification) ==
    IF ~Truthy(qualification) THEN SeeNotificationDetails
    ELSE LET cleaned == ReplaceSpaceRuns(trim(qualification), << " " >>)
         IN  IF Len(cleaned) > 1000 THEN SubSeq(cleaned, 1, 997) \o Ellipsis ELSE cleaned

normalizeDate(dateStr) ==
    IF ~Truthy(dateStr) THEN AddDays(Today, 30)
    ELSE LET hits == { i \in DOMAIN DateFormats :
                         StrictDayFirst(dateStr, DateFormats[i][1], DateFormats[i][2],
                                        DateFormats[i][3]) # NoDate }
         IN  IF hits = {} THEN AddDays(Today, 30)
             ELSE LET i == CHOOSE k \in hits : \A j \in hits : k <= j
                  IN  StrictDayFirst(dateStr, DateFormats[i][1], DateFormats[i][2],
                                     DateFormats[i][3])

\* Moment.toISOString(): YYYY-MM-DDTHH:mm:ss.SSSZ, the day at midnight
Pad(n, width) ==
    LET t == NatToText(n)
    IN  [ i \in 1..(width - Len(t)) |-> "0" ] \o t
toISOString(d) ==
    Pad(d[1], 4) \o << "-" >> \o Pad(d[2], 2) \o << "-" >> \o Pad(d[3], 2)
    \o << "T","0","0",":","0","0",":","0","0",".","0","0","0","Z" >>

\* moment(text) on an ISO 8601 text: YYYY-MM-DD, with or without a time
IsoDateParse(s) ==
    IF Len(s) >= 10 /\ s[5] = "-" /\ s[8] = "-" /\ (Len(s) > 10 => s[11] = "T")
    THEN LET y == TextToNat(SubSeq(s, 1, 4))
             m == TextToNat(SubSeq(s, 6, 7))
             d == TextToNat(SubSeq(s, 9, 10))
         IN  IF y >= 0 /\ m >= 0 /\ d >= 0 /\ ValidDate(<< y, m, d >>)
             THEN << y, m, d >> ELSE NoDate
    ELSE NoDate

\* moment(text) with no format: ISO 8601 first, then the engine's Date parser
MomentParse(s) == IF IsoDateParse(s) # NoDate THEN IsoDateParse(s) ELSE LegacyDateParse(s)

determineStatus(lastDate) ==
    IF ~Truthy(lastDate) THEN "active"
    ELSE LET deadline == MomentParse(lastDate)
         IN  IF deadline # NoDate /\ DateBefore(deadline, Today) THEN "expired" ELSE "active"

DefaultSourceUrl == "https://spscskm.gov.in"

normalizeJobData(rawData, now) ==
    [ advtNo        |-> Normalizer_normalizeAdvtNo(rawData.advtNo, now),
      postName      |-> normalizePostName(rawData.postName),
      department    |-> normalizeDepartment(rawData.department),
      totalPosts    |-> normalizeTotalPosts(rawData.totalPosts),
      qualification |-> normalizeQualification(rawData.qualification),
      lastDate      |-> normalizeDate(rawData.lastDate),
      pdfUrl        |-> rawData.pdfUrl,
      scrapedAt     |-> IF rawData.scrapedAt # 0 THEN rawData.scrapedAt ELSE now,
      createdAt     |-> now,
      status        |-> determineStatus(rawData.lastDate),
      dataComplete  |-> rawData.dataComplete # "false",
      sourceUrl     |-> IF rawData.sourceUrl # "" THEN rawData.sourceUrl
                        ELSE DefaultSourceUrl,
      parsingErrors |-> rawData.parsingErrors ]

(***************************************************************************)
(* The document parser's result (pdfParser.js, downloadAndParsePdf).  It   *)
(* never raises: a failure of the download or of the parse is caught and   *)
(* returned as a minimal record.  outcome is what the download and the     *)
(* text extraction did; extracted is what the patterns found in the text.  *)
(***************************************************************************)
TextTooShort == "PDF text too short or empty (likely scanned)"
ParseFailures == { TextTooShort }

SeeNotification ==
    << "S","e","e"," ","o","f","f","i","c","i","a","l"," ","n","o","t",
        "i","f","i","c","a","t","i","o","n" >>

downloadAndParsePdf(outcome, extracted) ==
    IF outcome \in ParseFailures
    THEN [ advtNo |-> Null, postName |-> Null, qualification |-> SeeNotification,
           lastDate |-> Null, totalPosts |-> << "1" >>, department |-> SPSCText,
           dataComplete |-> "false", parsingErrors |-> << outcome >> ]
    ELSE [ advtNo |-> extracted.advtNo, postName |-> extracted.postName,
           qualification |-> extracted.qualification, lastDate |-> extracted.lastDate,
           totalPosts |-> extracted.totalPosts, department |-> extracted.department,
           dataComplete |-> "true", parsingErrors |-> << >> ]

(***************************************************************************)
(* The notifications page.  Row i of the page is posting i of the          *)
(* catalogue; the title of the first posting may have been revised since   *)
(* the last run.  A row's advertisement number is Null when the page shows *)
(* none.                                                                   *)
(***************************************************************************)
Advt17 == << "1","7","/","S","P","S","C","/","E","X","A","M","/","2","0","2",
        "5" >>
Advt19 == << "1","9","/","s","p","s","c","/","e","x","a","m","/","2","0","2",
        "5" >>
Advt18 == << "1","8","-","S","P","S","C","-","E","X","A","M","-","2","0","2",
        "5" >>
UnderSecretary == << "U","n","d","e","r"," ","S","e","c","r","e","t","a","r","y" >>
UnderSecretaryRevised ==
    << "U","n","d","e","r"," ","S","e","c","r","e","t","a","r","y"," ",
        "(","R","e","v","i","s","e","d",")" >>
JuniorEngineer == << "J","u","n","i","o","r"," ","E","n","g","i","n","e","e","r" >>
LabourInspector == << "L","a","b","o","u","r"," ","I","n","s","p","e","c","t","o","r" >>
SubInspector == << "S","u","b"," ","I","n","s","p","e","c","t","o","r"," ","E","x",
        "c","i","s","e" >>
Date0512 == << "0","5","/","1","2","/","2","0","2","5" >>
Date1112 == << "1","1","/","1","2","/","2","0","2","5" >>
Date1501 == << "1","5","/","0","1","/","2","0","2","6" >>

SourceUrl == "https://spsc.sikkim.gov.in/Notifications.html"

Catalogue ==
    << [ title |-> UnderSecretary, advt |-> Advt17, date |-> Date0512,
         pdfs |-> << "https://spsc.sikkim.gov.in/Advertisements/17.pdf" >> ],
       [ title |-> JuniorEngineer, advt |-> Null, date |-> Date1112,
         pdfs |-> << "https://spsc.sikkim.gov.in/Advertisements/je.pdf" >> ],
       [ title |-> LabourInspector, advt |-> Advt19, date |-> Date1112,
         pdfs |-> << "https://spsc.sikkim.gov.in/Advertisements/19.pdf",
                     "https://spsc.sikkim.gov.in/Advertisements/19s.pdf" >> ],
       [ title |-> SubInspector, advt |-> Advt18, date |-> Null,
         pdfs |-> << "https://spsc.sikkim.gov.in/Advertisements/18.pdf" >> ] >>

PageRows(n, revised) ==
    [ i \in 1..n |-> IF i = 1 /\ revised
                     THEN [ Catalogue[i] EXCEPT !.title = UnderSecretaryRevised ]
                     ELSE Catalogue[i] ]

\* what the patterns find in the text of a posting's document: the number the
\* page shows (or none, when the pattern misses) and a closing date
Extracted(row, withAdvt) ==
    [ advtNo |-> IF withAdvt THEN row.advt ELSE Null, postName |-> Null,
      qualification |-> Null, lastDate |-> Date1501, totalPosts |-> << "2", "4" >>,
      department |-> Null ]

\* scraper.js, extractJobFromElement: the listing made of one row
extractJobFromElement(row, rowNumber, now) ==
    [ postName   |-> trim(row.title),
      advtNo     |-> IF Truthy(row.advt) THEN row.advt
                     ELSE << "S","P","S","C","_" >> \o NatToText(now) \o << "_" >>
                          \o NatToText(rowNumber),
      issuedDate |-> row.date,
      pdfUrls    |-> row.pdfs,
      sourceUrl  |-> SourceUrl,
      scrapedAt  |-> now ]

extractJobs(rows, now) == [ i \in DOMAIN rows |-> extractJobFromElement(rows[i], i, now) ]

(***************************************************************************)
(* State.                                                                  *)
(***************************************************************************)
VARIABLES
    \* the store and the clock
    jobs,           \* collection jobs: document key -> stored document
    clock,          \* Date.now(), in units of the politeness delay (pipeline)
                    \* or of TickMs (lock)
    faults,         \* store operations that have failed so far
    \* scrapeJobs (scraper.js)
    runNo,          \* runs started so far
    pc,             \* "idle" | "loop" | "parse" | "catch"
    page,           \* what the page showed when the run read it
    jobsProcessed,  \* jobsProcessed
    jobsAdded,      \* jobsAdded
    errors,         \* errors.length
    cur,            \* what happened to the listing being processed
    docId,          \* the last value saveJob returned in this run
    result,         \* how the last run ended: "none" | "success" | "fatal"
    fatalStage,     \* where the error of a fatal run was raised
    exitCode        \* process.exit code of the last run, -1 while none

pipeVars == << jobs, clock, faults, runNo, pc, page, jobsProcessed, jobsAdded, errors,
               cur, docId, result, fatalStage, exitCode >>

VARIABLES
    \* the wall clock of the lock and of the run tracker, in milliseconds
    wallClock,
    \* runLock.js, one copy of the module state for each process
    lock,           \* scraper_locks/current: NoLock or the stored record
    lockPc,         \* where each process is in acquireLock: "idle" | "set"
    lockT,          \* acquireLock's now of each process
    lockAcquired,   \* lockAcquired of each process
    lockRet,        \* what the last acquireLock call of each process returned
    lockCalls       \* acquireLock calls each process has made

lockVars == << lock, lockPc, lockT, lockAcquired, lockRet, lockCalls >>

VARIABLES
    \* errorHandler.js, retryOperation
    rPlan,          \* the errors the operation raises, in order, before it succeeds
    rCtx,           \* errorContext
    rAttempt,       \* attempt
    rCalls,         \* invocations of the operation so far
    rWaits,         \* the delays waited so far, in milliseconds
    rState,         \* "ready" | "waiting" | "returned" | "thrown"
    rErr,           \* the error raised to the caller: its place in rPlan, 0 while none
    \* errorHandler.js, classifyError applied to one error
    cMsg,           \* the vocabulary phrases error.message contains
    cCtx,           \* context
    cVerdict        \* what classifyError returned, NoVerdict before the call

retryVars == << rPlan, rCtx, rAttempt, rCalls, rWaits, rState, rErr >>
classVars == << cMsg, cCtx, cVerdict >>

VARIABLES
    \* scraperMetrics.js (step 7) and the process that drives it
    runs,           \* collection scraper_runs: runId -> run record
    currentRunId,   \* currentRunId, NoRun when null
    runId,          \* what initializeRun returned to the caller, NoRun before
    mainPc,         \* "start" | "running" | "finalized" | "exited"
    exitPath,       \* the way the process left: "none" | "normal" | "fatal" | "signal"
    calls,          \* run tracker calls made so far
    threw           \* TRUE once a run tracker call after initializeRun has raised

runVars == << runs, currentRunId, runId, mainPc, exitPath, calls, threw >>

VARIABLES
    \* firestoreService.js, the identity of one record and the lookup for it
    idIn,           \* the fields advtNo, postName, issuedDate of the record
    idStore,        \* collection jobs: key -> the fields of the record saved there
    idDocId,        \* what generateDocId returned for idIn, NoId before the call
    idDup           \* what checkDuplicate returned for idIn: "none" | "true" | "false"

idVars == << idIn, idStore, idDocId, idDup >>

VARIABLES
    \* killSwitch.js and the alert sink
    isProduction,   \* runtimeConfig.js, isProduction
    ksDoc,          \* system_controls/scraper: NoControl or the stored record
    killSwitchChecked,
    ksAlerts,       \* alerts sendAlert has delivered
    ksLog           \* the checkKillSwitch calls so far: what each read and returned

ksVars == << isProduction, ksDoc, killSwitchChecked, ksAlerts, ksLog >>

VARIABLES
    \* the entry point: the gates, the run and the way the process ends
    procPc,         \* "start" | "gate" | "running" | "ran" | "exited"
    procLock,       \* scraper_locks/current: "free" | "other" | "self"
    procLockHeld,   \* runLock.js, lockAcquired of this process
    procResult,     \* what scrapeJobs returned, NoResult before and when it raised
    procLogged,     \* the status logScraperRun was called with, "none" before
    procReleases,   \* releaseLock calls made
    procCause,      \* why the process ended, "none" while it runs
    procExitCode    \* process.exit code, -1 while the process runs

procVars == << procPc, procLock, procLockHeld, procResult, procLogged, procReleases,
               procCause, procExitCode >>

VARIABLES
    \* scraperMetrics.js (step 4), calculateRunStatus applied to one run's metrics
    runMetrics,     \* the metrics of the run
    runStatus       \* what calculateRunStatus returned, "none" before the call

statusVars == << runMetrics, runStatus >>

VARIABLES
    \* runtimeConfig.js
    processEnv,     \* process.env: NODE_ENV, FIREBASE_SERVICE_ACCOUNT, ALERT_EMAIL
    RUNTIME_MODE,   \* the mode computed when the module is loaded
    cfgPc,          \* "loaded" | "initialized" | "exited"
    cfgExitCode     \* process.exit code, -1 while the process runs

cfgVars == << processEnv, RUNTIME_MODE, cfgPc, cfgExitCode >>

VARIABLES
    \* normalizer.js, normalizeJobData applied to one raw record and to its result
    normRaw,        \* the raw record
    normOnce,       \* normalizeJobData(normRaw), NoJob before the call
    normTwice,      \* normalizeJobData applied to normOnce, NoJob before the call
    normPc          \* "raw" | "once" | "twice"

normVars == << normRaw, normOnce, normTwice, normPc >>

VARIABLES
    \* killSwitch.js, one checkKillSwitch call taken step by step while an
    \* operator enables and disables the scraper
    ckPc,             \* "idle" | "got": between the call's get and its write
    ckSnapshot,       \* what controlRef.get() returned to the call
    ckAfterDisable,   \* the call started after a disableScraper completed
    ckRet,            \* what the last finished call returned: "none" | "true" | "false" | "threw"
    disableCompleted  \* disableScraper completed and enableScraper has not run since

raceVars == << ckPc, ckSnapshot, ckAfterDisable, ckRet, disableCompleted >>

VARIABLES
    \* errorHandler.js, an error classified and shouldAlert asked about a type
    saMsg,          \* the vocabulary phrases the error's message contains
    saCtx,          \* context, passed to classifyError and to shouldAlert
    saVerdict,      \* classifyError(error, context), NoVerdict before the call
    saType,         \* the errorType passed to shouldAlert, "none" before the call
    saResult        \* what shouldAlert returned: "none" | "true" | "false"

alertVars == << saMsg, saCtx, saVerdict, saType, saResult >>

VARIABLES
    \* firestoreService.js, saveJob called with the records of successive attempts
    sJobs,          \* collection jobs: document key -> stored document
    sClock,         \* the server's time, one unit for each write
    sLast           \* the record handed to the last saveJob, NoAttempt before the first

saveVars == << sJobs, sClock, sLast >>

VARIABLES
    \* the run tracker used by several executions: scraper_runs and each
    \* process's copy of the module state
    iRuns,          \* collection scraper_runs: key -> run record
    iCurrentRunId,  \* currentRunId of each process
    iInits,         \* initializeRun calls each process has made
    iRet            \* how each process's last initializeRun ended: "none" | "ok" | "threw"

startVars == << iRuns, iCurrentRunId, iInits, iRet >>

vars == << pipeVars, wallClock, lockVars, retryVars, classVars, runVars, idVars, ksVars, procVars, statusVars, cfgVars, normVars, raceVars, alertVars, saveVars, startVars >>

notPipe == << wallClock, lockVars, retryVars, classVars, runVars, idVars, ksVars, procVars, statusVars, cfgVars, normVars, raceVars, alertVars, saveVars, startVars >>
notLock == << pipeVars, retryVars, classVars, runVars, idVars, ksVars, procVars, statusVars, cfgVars, normVars, raceVars, alertVars, saveVars, startVars >>
notRetry == << pipeVars, wallClock, lockVars, classVars, runVars, idVars, ksVars, procVars, statusVars, cfgVars, normVars, raceVars, alertVars, saveVars, startVars >>
notClass == << pipeVars, wallClock, lockVars, retryVars, runVars, idVars, ksVars, procVars, statusVars, cfgVars, normVars, raceVars, alertVars, saveVars, startVars >>
notRun == << pipeVars, lockVars, retryVars, classVars, idVars, ksVars, procVars, statusVars, cfgVars, normVars, raceVars, alertVars, saveVars, startVars >>
notId == << pipeVars, wallClock, lockVars, retryVars, classVars, runVars, ksVars, procVars, statusVars, cfgVars, normVars, raceVars, alertVars, saveVars, startVars >>
notKs == << pipeVars, wallClock, lockVars, retryVars, classVars, runVars, idVars, procVars, statusVars, cfgVars, normVars, raceVars, alertVars, saveVars, startVars >>
notProc == << pipeVars, wallClock, lockVars, retryVars, classVars, runVars, idVars, ksVars, statusVars, cfgVars, normVars, raceVars, alertVars, saveVars, startVars >>
notStatus == << pipeVars, wallClock, lockVars, retryVars, classVars, runVars, idVars, ksVars, procVars, cfgVars, normVars, raceVars, alertVars, saveVars, startVars >>
notCfg == << pipeVars, wallClock, lockVars, retryVars, classVars, runVars, idVars, ksVars, procVars, statusVars, normVars, raceVars, alertVars, saveVars, startVars >>
notNorm == << pipeVars, wallClock, lockVars, retryVars, classVars, runVars, idVars, ksVars, procVars, statusVars, cfgVars, raceVars, alertVars, saveVars, startVars >>
notRace == << pipeVars, wallClock, lockVars, retryVars, classVars, runVars, idVars, ksVars, procVars, statusVars, cfgVars, normVars, alertVars, saveVars, startVars >>
notKsRace == << pipeVars, wallClock, lockVars, retryVars, classVars, runVars, idVars, procVars, statusVars, cfgVars, normVars, alertVars, saveVars, startVars >>
notAlert == << pipeVars, wallClock, lockVars, retryVars, classVars, runVars, idVars, ksVars, procVars, statusVars, cfgVars, normVars, raceVars, saveVars, startVars >>
notSave == << pipeVars, wallClock, lockVars, retryVars, classVars, runVars, idVars, ksVars, procVars, statusVars, cfgVars, normVars, raceVars, alertVars, startVars >>
notStart == << pipeVars, lockVars, retryVars, classVars, runVars, idVars, ksVars, procVars, statusVars, cfgVars, normVars, raceVars, alertVars, saveVars >>

(***************************************************************************)
(* Persistence (firestoreService.js).                                      *)
(***************************************************************************)
NoDocs == [ k \in {} |-> 0 ]

\* DocumentReference.set(data, { merge: true }): the fields of data replace the
\* stored ones, the other stored fields stay
MergeSet(stored, key, data) ==
    [ k \in (DOMAIN stored) \cup {key} |->
        IF k # key THEN stored[k]
        ELSE IF key \in DOMAIN stored
             THEN [ f \in (DOMAIN stored[key]) \cup (DOMAIN data) |->
                      IF f \in DOMAIN data THEN data[f] ELSE stored[key][f] ]
             ELSE data ]

\* the key saveJob writes to; a normalized record carries no issuedDate
saveJobDocId(job) ==
    generateDocId(job.advtNo, job.postName,
                  IF "issuedDate" \in DOMAIN job THEN job.issuedDate ELSE Null)

\* the document saveJob hands to set(): the record, createdAt and updatedAt
\* both the server's time of the write
saveJobData(job, now) ==
    [ f \in (DOMAIN job) \cup {"createdAt", "updatedAt"} |->
        IF f \in {"createdAt", "updatedAt"} THEN now ELSE job[f] ]

saveJob(stored, job, now) == MergeSet(stored, saveJobDocId(job), saveJobData(job, now))

checkDuplicate(stored, advtNo) ==
    IF ~Truthy(advtNo) THEN FALSE ELSE checkDuplicateDocId(advtNo) \in DOMAIN stored

\* a store operation succeeds, or fails while the model's budget of failures lasts
StoreOutcomes == IF faults < MaxStoreFaults THEN BOOLEAN ELSE { TRUE }
Charge(storeOk) == faults' = IF storeOk THEN faults ELSE faults + 1

(***************************************************************************)
(* scrapeJobs (scraper.js).                                                *)
(***************************************************************************)
StoreError == "Firestore unavailable"
RunStages == { "init", "launch", "navigation", "structure", "extract", "close" }
NoRecord == [ parse |-> "none", saved |-> "none", error |-> "" ]
NoPage == [ n |-> 0, revised |-> FALSE, at |-> 0 ]

\* jobs: the listings extractJobs returned in this run
Listings == extractJobs(PageRows(page.n, page.revised), page.at)
\* every iteration handling the first listing
CurJob_First == Listings[1]

\* job: the listing of the current iteration
CurJob == Listings[jobsProcessed]

PipeInit ==
    /\ jobs = NoDocs
    /\ clock = 1
    /\ faults = 0
    /\ runNo = 0
    /\ pc = "idle"
    /\ page = NoPage
    /\ jobsProcessed = 0
    /\ jobsAdded = 0
    /\ errors = 0
    /\ cur = NoRecord
    /\ docId = Null
    /\ result = "none"
    /\ fatalStage = "none"
    /\ exitCode = -1

\* the raw record of the try block: the listing, overridden by every field of
\* the parser's result
TryRawData(job, pdfData) ==
    [ advtNo |-> pdfData.advtNo, postName |-> pdfData.postName,
      department |-> pdfData.department, totalPosts |-> pdfData.totalPosts,
      qualification |-> pdfData.qualification, lastDate |-> pdfData.lastDate,
      pdfUrl |-> job.pdfUrls[1], scrapedAt |-> job.scrapedAt,
      sourceUrl |-> job.sourceUrl, dataComplete |-> pdfData.dataComplete,
      parsingErrors |-> pdfData.parsingErrors ]

\* the raw record of the catch block: the listing alone, marked incomplete
PartialRawData(job, message) ==
    [ advtNo |-> job.advtNo, postName |-> job.postName,
      department |-> Null, totalPosts |-> Null, qualification |-> Null,
      lastDate |-> Null,
      pdfUrl |-> job.pdfUrls[1], scrapedAt |-> job.scrapedAt,
      sourceUrl |-> job.sourceUrl, dataComplete |-> "false",
      parsingErrors |-> << message >> ]

\* the inner try left out: a failure of the partial save ends the run
AfterPartialSaveFailure_Escapes == "idle"

\* where a failure of the partial save leaves the loop: it is caught and logged
AfterPartialSaveFailure == "loop"

\* lines 92-138: a run starts; the steps before the loop succeed and the page
\* yields n rows
StartRun(n, revised) ==
    /\ pc = "idle"
    /\ runNo < MaxRuns
    /\ (clock - 1) + n <= MaxRecords
    /\ runNo' = runNo + 1
    /\ page' = [ n |-> n, revised |-> revised, at |-> clock ]
    /\ jobsProcessed' = 0
    /\ jobsAdded' = 0
    /\ errors' = 0
    /\ cur' = NoRecord
    /\ docId' = Null
    /\ result' = "none"
    /\ fatalStage' = "none"
    /\ exitCode' = -1
    /\ pc' = "loop"
    /\ UNCHANGED << jobs, clock, faults >>
    /\ UNCHANGED notPipe

\* lines 92-130, 229-236 and 425-428: a step before the loop raises (the store
\* cannot be opened, the browser cannot start, the page is unreachable, the
\* table is missing, no row selector matches); the error is logged, raised
\* again, and the process exits with code 1
FailRun(stage) ==
    /\ pc = "idle"
    /\ runNo < MaxRuns
    /\ stage \in RunStages \ { "close" }
    /\ runNo' = runNo + 1
    /\ page' = NoPage
    /\ jobsProcessed' = 0
    /\ jobsAdded' = 0
    /\ errors' = 0
    /\ cur' = NoRecord
    /\ docId' = Null
    /\ result' = "fatal"
    /\ fatalStage' = stage
    /\ exitCode' = 1
    /\ UNCHANGED << jobs, clock, faults, pc >>
    /\ UNCHANGED notPipe

\* lines 141-156: the next listing; checkDuplicate raises, finds the record, or
\* finds none
CheckDuplicateStep(storeOk) ==
    /\ pc = "loop"
    /\ jobsProcessed < page.n
    /\ storeOk \in StoreOutcomes
    /\ Charge(storeOk)
    /\ jobsProcessed' = jobsProcessed + 1
    /\ clock' = clock + 1
    /\ LET job == Listings[jobsProcessed + 1]
       IN  IF ~storeOk
           THEN /\ cur' = [ parse |-> "none", saved |-> "none", error |-> StoreError ]
                /\ pc' = "catch"
           ELSE IF checkDuplicate(jobs, job.advtNo)
           THEN /\ cur' = [ parse |-> "none", saved |-> "duplicate", error |-> "" ]
                /\ pc' = "loop"
           ELSE /\ cur' = NoRecord
                /\ pc' = "parse"
    /\ UNCHANGED << jobs, runNo, page, jobsAdded, errors, docId, result, fatalStage,
                    exitCode >>
    /\ UNCHANGED notPipe

\* lines 158-175: the document is parsed, the record normalized and saved
ParseAndSave(outcome, withAdvt, storeOk) ==
    /\ pc = "parse"
    /\ storeOk \in StoreOutcomes
    /\ Charge(storeOk)
    /\ LET job        == CurJob
           row        == [ advt |-> job.advtNo ]
           pdfData    == downloadAndParsePdf(outcome, Extracted(row, withAdvt))
           normalized == normalizeJobData(TryRawData(job, pdfData), clock)
       IN  IF storeOk
           THEN /\ jobs' = saveJob(jobs, normalized, clock)
                /\ docId' = saveJobDocId(normalized)
                /\ jobsAdded' = jobsAdded + 1
                /\ cur' = [ cur EXCEPT !.parse = outcome, !.saved = "try" ]
                /\ pc' = "loop"
           ELSE /\ cur' = [ cur EXCEPT !.parse = outcome, !.error = StoreError ]
                /\ pc' = "catch"
                /\ UNCHANGED << jobs, docId, jobsAdded >>
    /\ UNCHANGED << clock, runNo, page, jobsProcessed, errors, result, fatalStage,
                    exitCode >>
    /\ UNCHANGED notPipe

\* lines 177-200: the failure is recorded and the listing saved as a partial
\* record; a failure of that save is caught as well
SavePartial(storeOk) ==
    /\ pc = "catch"
    /\ storeOk \in StoreOutcomes
    /\ Charge(storeOk)
    /\ errors' = errors + 1
    /\ LET partialJob == normalizeJobData(PartialRawData(CurJob, cur.error), clock)
       IN  IF storeOk
           THEN /\ jobs' = saveJob(jobs, partialJob, clock)
                /\ docId' = saveJobDocId(partialJob)
                /\ cur' = [ cur EXCEPT !.saved = "partial" ]
                /\ pc' = "loop"
                /\ UNCHANGED << result, fatalStage, exitCode >>
           ELSE /\ cur' = [ cur EXCEPT !.saved = "lost" ]
                /\ pc' = AfterPartialSaveFailure
                /\ IF AfterPartialSaveFailure = "loop"
                   THEN UNCHANGED << result, fatalStage, exitCode >>
                   ELSE /\ result' = "fatal"
                        /\ fatalStage' = "record"
                        /\ exitCode' = 1
                /\ UNCHANGED << jobs, docId >>
    /\ UNCHANGED << clock, runNo, page, jobsProcessed, jobsAdded >>
    /\ UNCHANGED notPipe

\* lines 208-236 and 419-428: after the last listing the summary is returned
\* and the browser closed; the process exits with 0, or with 1 when closing
\* the browser raises
FinishRun(closeOk) ==
    /\ pc = "loop"
    /\ jobsProcessed = page.n
    /\ pc' = "idle"
    /\ result' = IF closeOk THEN "success" ELSE "fatal"
    /\ fatalStage' = IF closeOk THEN "none" ELSE "close"
    /\ exitCode' = IF closeOk THEN 0 ELSE 1
    /\ UNCHANGED << jobs, clock, faults, runNo, page, jobsProcessed, jobsAdded, errors,
                    cur, docId >>
    /\ UNCHANGED notPipe

PipeNext ==
    \/ \E n \in 1..MaxJobs, revised \in BOOLEAN : StartRun(n, revised)
    \/ \E stage \in RunStages : FailRun(stage)
    \/ \E storeOk \in BOOLEAN : CheckDuplicateStep(storeOk)
    \/ \E outcome \in ParseFailures \cup {"ok"}, withAdvt \in BOOLEAN, storeOk \in BOOLEAN :
          ParseAndSave(outcome, withAdvt, storeOk)
    \/ \E storeOk \in BOOLEAN : SavePartial(storeOk)
    \/ \E closeOk \in BOOLEAN : FinishRun(closeOk)

(***************************************************************************)
(* Error classification (errorHandler.js).  An error message is the set of *)
(* the vocabulary phrases its lower-cased text contains; "5xx" stands for  *)
(* a match of the pattern /5\d{2}/.                                        *)
(***************************************************************************)
NetworkPhrases == { "certificate", "timeout", "econnrefused", "enotfound", "network",
                    "dns", "5xx" }
ParsePhrases == { "pdf text too short", "scanned", "empty", "could not extract" }
StructurePhrases == { "no job listings found", "all selectors failed",
                      "page structure changed", "table not found" }
FirestorePhrases == { "firestore", "permission denied", "quota exceeded",
                      "deadline exceeded" }
Vocabulary == NetworkPhrases \cup ParsePhrases \cup StructurePhrases \cup FirestorePhrases

ErrorType == { "NETWORK_ERROR", "PARSE_ERROR", "STRUCTURE_CHANGE", "FIRESTORE_ERROR" }

NetworkVerdict(text) ==
    [ type |-> "NETWORK_ERROR", shouldRetry |-> TRUE, maxRetries |-> 2,
      shouldAlert |-> FALSE, message |-> text ]
ParseVerdict ==
    [ type |-> "PARSE_ERROR", shouldRetry |-> FALSE, maxRetries |-> 0,
      shouldAlert |-> FALSE, message |-> "PDF parsing failed (expected for scanned PDFs)" ]
StructureVerdict ==
    [ type |-> "STRUCTURE_CHANGE", shouldRetry |-> FALSE, maxRetries |-> 0,
      shouldAlert |-> TRUE,
      message |-> "Website structure changed - human intervention required" ]
FirestoreVerdict ==
    [ type |-> "FIRESTORE_ERROR", shouldRetry |-> TRUE, maxRetries |-> 3,
      shouldAlert |-> TRUE, message |-> "Firestore operation failed" ]

\* the store's check moved to the front: the first match is no longer the
\* network's
classifyError_FirestoreFirst(message, context) ==
    IF message \cap FirestorePhrases # {} \/ context.isFirestoreOperation
    THEN FirestoreVerdict
    ELSE IF message \cap NetworkPhrases # {}
    THEN NetworkVerdict("Network connectivity issue")
    ELSE IF message \cap ParsePhrases # {} \/ context.isPdfParsing
    THEN ParseVerdict
    ELSE IF \/ message \cap StructurePhrases # {}
            \/ (context.jobsFound = 0 /\ context.expectedJobs)
    THEN StructureVerdict
    ELSE NetworkVerdict("Unknown error - treating as network issue")

classifyError(message, context) ==
    IF \/ "certificate" \in message
       \/ "timeout" \in message
       \/ "econnrefused" \in message
       \/ "enotfound" \in message
       \/ "network" \in message
       \/ "dns" \in message
       \/ "5xx" \in message
    THEN NetworkVerdict("Network connectivity issue")
    ELSE IF \/ "pdf text too short" \in message
            \/ "scanned" \in message
            \/ "empty" \in message
            \/ "could not extract" \in message
            \/ context.isPdfParsing
    THEN ParseVerdict
    ELSE IF \/ "no job listings found" \in message
            \/ "all selectors failed" \in message
            \/ "page structure changed" \in message
            \/ "table not found" \in message
            \/ (context.jobsFound = 0 /\ context.expectedJobs)
    THEN StructureVerdict
    ELSE IF \/ "firestore" \in message
            \/ "permission denied" \in message
            \/ "quota exceeded" \in message
            \/ "deadline exceeded" \in message
            \/ context.isFirestoreOperation
    THEN FirestoreVerdict
    ELSE NetworkVerdict("Unknown error - treating as network issue")

NoVerdict == [ type |-> "none" ]

\* the context bags: the flags, and jobsFound 0 or 1 (some) with expectedJobs
Contexts == [ isPdfParsing : BOOLEAN, isFirestoreOperation : BOOLEAN,
              jobsFound : {0, 1}, expectedJobs : BOOLEAN ]
EmptyContext == [ isPdfParsing |-> FALSE, isFirestoreOperation |-> FALSE,
                  jobsFound |-> 1, expectedJobs |-> FALSE ]

\* the messages that contain at most k phrases of the vocabulary
RECURSIVE MessagesUpTo(_)
MessagesUpTo(k) ==
    IF k = 0 THEN { {} }
    ELSE { m \cup t : m \in MessagesUpTo(k - 1), t \in { {} } \cup { {v} : v \in Vocabulary } }

ClassInit ==
    /\ cMsg \in MessagesUpTo(MaxKeywords)
    /\ cCtx \in Contexts
    /\ cVerdict = NoVerdict

ClassIdle ==
    /\ cMsg = {}
    /\ cCtx = EmptyContext
    /\ cVerdict = NoVerdict

\* classifyError is applied to the error
Classify ==
    /\ cVerdict = NoVerdict
    /\ cVerdict' = classifyError(cMsg, cCtx)
    /\ UNCHANGED << cMsg, cCtx >>
    /\ UNCHANGED notClass

(***************************************************************************)
(* retryOperation (errorHandler.js).                                       *)
(***************************************************************************)
\* the errors an operation may raise: one message of each kind, and one that
\* matches no phrase
RetryMessages == { {"timeout"}, {"pdf text too short", "empty", "scanned"},
                   {"page structure changed"}, {"quota exceeded"}, {} }
RetryContexts == { EmptyContext,
                   [ EmptyContext EXCEPT !.isPdfParsing = TRUE ],
                   [ EmptyContext EXCEPT !.isFirestoreOperation = TRUE ] }

RECURSIVE PlansUpTo(_)
PlansUpTo(k) ==
    IF k = 0 THEN { << >> }
    ELSE PlansUpTo(k - 1)
         \cup { Append(pl, m) : pl \in { q \in PlansUpTo(k - 1) : Len(q) = k - 1 },
                                m \in RetryMessages }

RECURSIVE Pow2(_)
Pow2(k) == IF k = 0 THEN 1 ELSE 2 * Pow2(k - 1)

\* the verdict ignored: every error is retried up to a fixed number of attempts
GiveUp_FixedCap(classification, attempt) == attempt >= 3

\* the cap on attempts left out: a retryable failure is always retried
GiveUp_NoCap(classification, attempt) == ~classification.shouldRetry

\* line 117: no more retries
GiveUp(classification, attempt) ==
    ~classification.shouldRetry \/ attempt >= classification.maxRetries

\* line 122: the delay before the next attempt, in milliseconds
BackoffDelay(attempt) == Pow2(attempt) * 1000

\* the error of the first failure kept and raised in the end
RaisedError_First(invocation) == 1

\* line 118, throw error: the error caught from this invocation of the operation
RaisedError(invocation) == invocation

RetryInit ==
    /\ rPlan \in PlansUpTo(MaxFailures)
    /\ rCtx \in RetryContexts
    /\ rAttempt = 0
    /\ rCalls = 0
    /\ rWaits = << >>
    /\ rState = "ready"
    /\ rErr = 0

RetryIdle ==
    /\ rPlan = << >>
    /\ rCtx = EmptyContext
    /\ rAttempt = 0
    /\ rCalls = 0
    /\ rWaits = << >>
    /\ rState = "returned"
    /\ rErr = 0

\* lines 108-125: the operation is invoked; it returns, or raises the next error
\* of the plan, which is classified and raised again or followed by a wait
RetryInvoke ==
    /\ rState = "ready"
    /\ rCalls' = rCalls + 1
    /\ IF rCalls + 1 > Len(rPlan)
       THEN /\ rState' = "returned"
            /\ UNCHANGED << rAttempt, rWaits, rErr >>
       ELSE LET error          == rPlan[rCalls + 1]
                classification == classifyError(error, rCtx)
            IN  /\ rAttempt' = rAttempt + 1
                /\ IF GiveUp(classification, rAttempt + 1)
                   THEN /\ rState' = "thrown"
                        /\ rErr' = RaisedError(rCalls + 1)
                        /\ UNCHANGED rWaits
                   ELSE /\ rState' = "waiting"
                        /\ rWaits' = Append(rWaits, BackoffDelay(rAttempt + 1))
                        /\ UNCHANGED rErr
    /\ UNCHANGED << rPlan, rCtx >>
    /\ UNCHANGED notRetry

\* line 125: the wait is over
RetryWake ==
    /\ rState = "waiting"
    /\ rState' = "ready"
    /\ UNCHANGED << rPlan, rCtx, rAttempt, rCalls, rWaits, rErr >>
    /\ UNCHANGED notRetry

(***************************************************************************)
(* The run lock (runLock.js): one document, scraper_locks/current, shared  *)
(* by the scraper processes.                                               *)
(***************************************************************************)
Procs == { "p1", "p2" }
LOCK_TTL_MS == 30 * 60 * 1000
\* the wall clock advances in steps of ten minutes
TickMs == 10 * 60 * 1000
NoLock == [ exists |-> FALSE ]

\* line 273
LockExpiresAt(now) == now + LOCK_TTL_MS

\* the comparison turned round: an expired lock counts as valid, a valid one
\* as stale
LockStillValid_Reversed(lockDoc, now) == lockDoc.exists /\ lockDoc.expiresAt < now

\* a lock counts as valid at the very millisecond it expires
LockStillValid_AtExpiry(lockDoc, now) == lockDoc.exists /\ lockDoc.expiresAt >= now

\* lines 278-283: the lock exists and lockExpiry > now
LockStillValid(lockDoc, now) == lockDoc.exists /\ lockDoc.expiresAt > now

LockInit ==
    /\ lock = NoLock
    /\ lockPc = [ p \in Procs |-> "idle" ]
    /\ lockT = [ p \in Procs |-> 0 ]
    /\ lockAcquired = [ p \in Procs |-> FALSE ]
    /\ lockRet = [ p \in Procs |-> "none" ]
    /\ lockCalls = [ p \in Procs |-> 0 ]

\* lines 271-292: now is taken, the lock document is read, and a lock that is
\* still valid makes the call return false
AcquireRead(p, storeOk) ==
    /\ lockPc[p] = "idle"
    /\ lockCalls[p] < MaxLockCalls
    /\ lockCalls' = [ lockCalls EXCEPT ![p] = @ + 1 ]
    /\ lockT' = [ lockT EXCEPT ![p] = wallClock ]
    /\ IF ~storeOk
       THEN /\ lockRet' = [ lockRet EXCEPT ![p] = "threw" ]
            /\ UNCHANGED lockPc
       ELSE IF LockStillValid(lock, wallClock)
       THEN /\ lockRet' = [ lockRet EXCEPT ![p] = "false" ]
            /\ UNCHANGED lockPc
       ELSE /\ lockRet' = [ lockRet EXCEPT ![p] = "none" ]
            /\ lockPc' = [ lockPc EXCEPT ![p] = "set" ]
    /\ UNCHANGED << lock, lockAcquired, wallClock >>
    /\ UNCHANGED notLock

\* lines 299-311: the lock document is written and the call returns true
AcquireSet(p, storeOk) ==
    /\ lockPc[p] = "set"
    /\ lockPc' = [ lockPc EXCEPT ![p] = "idle" ]
    /\ IF storeOk
       THEN /\ lock' = [ exists |-> TRUE, acquiredAt |-> wallClock,
                         expiresAt |-> LockExpiresAt(lockT[p]), pid |-> p ]
            /\ lockAcquired' = [ lockAcquired EXCEPT ![p] = TRUE ]
            /\ lockRet' = [ lockRet EXCEPT ![p] = "true" ]
       ELSE /\ lockRet' = [ lockRet EXCEPT ![p] = "threw" ]
            /\ UNCHANGED << lock, lockAcquired >>
    /\ UNCHANGED << lockT, lockCalls, wallClock >>
    /\ UNCHANGED notLock

\* lines 324-338
ReleaseLock(p, storeOk) ==
    /\ lockPc[p] = "idle"
    /\ IF lockAcquired[p] /\ storeOk
       THEN /\ lock' = NoLock
            /\ lockAcquired' = [ lockAcquired EXCEPT ![p] = FALSE ]
       ELSE UNCHANGED << lock, lockAcquired >>
    /\ UNCHANGED << lockPc, lockT, lockRet, lockCalls, wallClock >>
    /\ UNCHANGED notLock

\* time passes
LockTick ==
    /\ wallClock < MaxTicks * TickMs
    /\ wallClock' = wallClock + TickMs
    /\ UNCHANGED lockVars
    /\ UNCHANGED notLock

LockNext ==
    \/ \E p \in Procs, storeOk \in BOOLEAN : AcquireRead(p, storeOk)
    \/ \E p \in Procs, storeOk \in BOOLEAN : AcquireSet(p, storeOk)
    \/ \E p \in Procs, storeOk \in BOOLEAN : ReleaseLock(p, storeOk)
    \/ LockTick

(***************************************************************************)
(* The run tracker (scraperMetrics.js, step 7) and the process calling it. *)
(***************************************************************************)
NoRun == << >>
NoTime == << >>
NoFatalError == "null"
FatalErrorText == "Page structure changed"
TerminalStatuses == { "success", "partial", "failed" }
Counters == { "jobsFound", "jobsInserted", "jobsSkipped", "parsingErrorsCount" }

\* new Date().toISOString(): the run id is the millisecond of the wall clock
IsoTime(t) == << t >>

\* lines 27-38
runDoc(id) ==
    [ runId |-> id, startedAt |-> wallClock, finishedAt |-> NoTime, status |-> "running",
      jobsFound |-> 0, jobsInserted |-> 0, jobsSkipped |-> 0, parsingErrorsCount |-> 0,
      fatalError |-> NoFatalError, environment |-> "development" ]

\* DocumentReference.update(updates) on an existing document
UpdateDoc(stored, key, updates) ==
    [ stored EXCEPT ![key] =
        [ f \in (DOMAIN stored[key]) \cup (DOMAIN updates) |->
            IF f \in DOMAIN updates THEN updates[f] ELSE stored[key][f] ] ]

\* update() goes through when the store answers and the document exists
UpdateGoesThrough(stored, key, storeOk) == storeOk /\ key \in DOMAIN stored

\* the batches of metrics the orchestrator writes
MetricUpdates == { [ jobsFound |-> 2 ], [ jobsFound |-> 1, jobsSkipped |-> 1 ] }

\* the summaries logScraperRun is called with
RunSummaries == { [ jobsFound |-> 2, jobsSaved |-> 2, status |-> "SUCCESS" ],
                  [ jobsFound |-> 0, jobsSaved |-> 0 ] }

\* metrics.status || 'UNKNOWN'
ResultStatus(r) == IF "status" \in DOMAIN r THEN r.status ELSE "UNKNOWN"

\* lines 27-40 of logScraperRun: the summary handed to add()
runSummary(metrics) ==
    [ runAt |-> wallClock, jobsFound |-> metrics.jobsFound, jobsSaved |-> metrics.jobsSaved,
      status |-> ResultStatus(metrics) ]

\* CollectionReference.add(): a key of the store's own making, no run id
AutoId(stored) == << 0 - (Cardinality(DOMAIN stored) + 1) >>

\* the failure of the store call raised again to the caller
RaisedToCaller_Rethrown(failed) == failed

\* catch (err) { logError(...) }: the failure of the store call is logged and
\* the call returns
RaisedToCaller(failed) == FALSE

RunInit ==
    /\ runs = NoDocs
    /\ currentRunId = NoRun
    /\ runId = NoRun
    /\ mainPc = "start"
    /\ exitPath = "none"
    /\ calls = 0
    /\ threw = FALSE

RunIdle ==
    /\ runs = NoDocs
    /\ currentRunId = NoRun
    /\ runId = NoRun
    /\ mainPc = "exited"
    /\ exitPath = "none"
    /\ calls = 0
    /\ threw = FALSE

\* lines 22-44; a failed set() raises to the caller, after currentRunId was set
InitializeRun(storeOk) ==
    /\ mainPc = "start"
    /\ currentRunId' = IsoTime(wallClock)
    /\ IF storeOk
       THEN /\ runs' = MergeSet(runs, IsoTime(wallClock), runDoc(IsoTime(wallClock)))
            /\ runId' = IsoTime(wallClock)
            /\ mainPc' = "running"
            /\ threw' = FALSE
       ELSE /\ mainPc' = "failed-init"
            /\ threw' = TRUE
            /\ UNCHANGED << runs, runId >>
    /\ UNCHANGED << exitPath, calls, wallClock >>
    /\ UNCHANGED notRun

\* lines 49-57
UpdateRunMetrics(updates, storeOk) ==
    /\ mainPc \in { "running", "finalized" }
    /\ calls < MaxCalls
    /\ calls' = calls + 1
    /\ threw' = RaisedToCaller(currentRunId # NoRun
                                /\ ~UpdateGoesThrough(runs, currentRunId, storeOk))
    /\ IF currentRunId # NoRun /\ UpdateGoesThrough(runs, currentRunId, storeOk)
       THEN runs' = UpdateDoc(runs, currentRunId, updates)
       ELSE UNCHANGED runs
    /\ UNCHANGED << currentRunId, runId, mainPc, exitPath, wallClock >>
    /\ UNCHANGED notRun

\* lines 62-72
IncrementCounter(field, storeOk) ==
    /\ mainPc \in { "running", "finalized" }
    /\ calls < MaxCalls
    /\ calls' = calls + 1
    /\ threw' = RaisedToCaller(currentRunId # NoRun
                                /\ ~UpdateGoesThrough(runs, currentRunId, storeOk))
    /\ IF currentRunId # NoRun /\ UpdateGoesThrough(runs, currentRunId, storeOk)
       THEN runs' = [ runs EXCEPT ![currentRunId][field] = @ + 1 ]
       ELSE UNCHANGED runs
    /\ UNCHANGED << currentRunId, runId, mainPc, exitPath, wallClock >>
    /\ UNCHANGED notRun

\* lines 77-93: the update, whose failure is logged, and currentRunId = null
\* whatever happened
FinalizeRun(status, fatalError, storeOk) ==
    /\ mainPc \in { "running", "failed-init", "finalized" }
    /\ mainPc = "finalized" => calls < MaxCalls
    /\ calls' = IF mainPc = "finalized" THEN calls + 1 ELSE calls
    /\ threw' = RaisedToCaller(currentRunId # NoRun
                                /\ ~UpdateGoesThrough(runs, currentRunId, storeOk))
    /\ IF currentRunId # NoRun /\ UpdateGoesThrough(runs, currentRunId, storeOk)
       THEN runs' = UpdateDoc(runs, currentRunId,
                              [ status |-> status, fatalError |-> fatalError,
                                finishedAt |-> IsoTime(wallClock) ])
       ELSE UNCHANGED runs
    /\ currentRunId' = NoRun
    /\ mainPc' = "finalized"
    /\ exitPath' = IF mainPc = "finalized" THEN exitPath
                   ELSE IF fatalError # NoFatalError THEN "fatal"
                   ELSE IF status = "failed" THEN "handled"
                   ELSE "normal"
    /\ UNCHANGED << runId, wallClock >>
    /\ UNCHANGED notRun

\* logScraperRun (part_005, lines 22-51), called at the end of a run until a
\* summary is stored: the summary is added to scraper_runs; a failure of add() is logged and the
\* summary returned all the same
LogScraperRun(metrics, storeOk) ==
    /\ mainPc = "finalized"
    /\ DOMAIN runs \subseteq { runId }
    /\ calls < MaxCalls
    /\ calls' = calls + 1
    /\ threw' = RaisedToCaller(~storeOk)
    /\ IF storeOk
       THEN runs' = MergeSet(runs, AutoId(runs), runSummary(metrics))
       ELSE UNCHANGED runs
    /\ UNCHANGED << currentRunId, runId, mainPc, exitPath, wallClock >>
    /\ UNCHANGED notRun

\* the process ends once the run was finalized
ExitProcess ==
    /\ mainPc = "finalized"
    /\ mainPc' = "exited"
    /\ UNCHANGED << runs, currentRunId, runId, exitPath, calls, threw, wallClock >>
    /\ UNCHANGED notRun

\* time passes
RunTick ==
    /\ mainPc # "exited"
    /\ wallClock < MaxTicks * TickMs
    /\ wallClock' = wallClock + TickMs
    /\ UNCHANGED runVars
    /\ UNCHANGED notRun

\* the status and fatal error the orchestrator finalizes a run with
Finalizations == { << "success", NoFatalError >>, << "partial", NoFatalError >>,
                   << "failed", NoFatalError >>, << "failed", FatalErrorText >> }

RunNext ==
    \/ \E storeOk \in BOOLEAN : InitializeRun(storeOk)
    \/ \E u \in MetricUpdates, storeOk \in BOOLEAN : UpdateRunMetrics(u, storeOk)
    \/ \E f \in Counters, storeOk \in BOOLEAN : IncrementCounter(f, storeOk)
    \/ \E fin \in Finalizations, storeOk \in BOOLEAN : FinalizeRun(fin[1], fin[2], storeOk)
    \/ \E m \in RunSummaries, storeOk \in BOOLEAN : LogScraperRun(m, storeOk)
    \/ ExitProcess
    \/ RunTick

(***************************************************************************)
(* The identity of a record and the duplicate lookup                       *)
(* (firestoreService.js), applied to one record.                           *)
(***************************************************************************)
NoId == Null

\* String.prototype.toLowerCase, one character
LowerChar(c) ==
    IF \E i \in DOMAIN UpperLetters : UpperLetters[i] = c
    THEN LowerLetters[CHOOSE i \in DOMAIN UpperLetters : UpperLetters[i] = c]
    ELSE c
toLowerCase(s) == [ i \in DOMAIN s |-> LowerChar(s[i]) ]

\* the ways an advertisement number is written: separators set off by blanks,
\* hyphens for slashes
RECURSIVE SpacedSeparators(_)
SpacedSeparators(s) ==
    IF s = << >> THEN << >>
    ELSE (IF Head(s) = "/" THEN << " ", "/", " " >> ELSE << Head(s) >>)
         \o SpacedSeparators(Tail(s))
DashSeparators(s) == [ i \in DOMAIN s |-> IF s[i] = "/" THEN "-" ELSE s[i] ]

Advt19Upper == toUpperCase(Advt19)
AdvtBases == { Advt17, Advt19Upper }
Spellings(base) ==
    LET cased  == { base, toLowerCase(base) }
        spaced == cased \cup { SpacedSeparators(a) : a \in cased }
    IN  spaced \cup { DashSeparators(a) : a \in spaced }

\* an advertisement number of the listing's fallback form, SPSC_<time>_<row>
FallbackAdvt == << "S","P","S","C","_","5","_","1" >>
FallbackAdvtDashed == << "S","P","S","C","-","5","-","1" >>
BlankAdvt == << " ", " " >>

IdAdvtNos ==
    UNION { Spellings(b) : b \in AdvtBases } \cup { Null, FallbackAdvt, BlankAdvt }
IdInputs ==
    [ advtNo : IdAdvtNos, postName : { JuniorEngineer, LabourInspector },
      issuedDate : { Date1112, Null } ]
\* another record of the collection
OtherRecords ==
    { [ advtNo |-> FallbackAdvtDashed, postName |-> SubInspector, issuedDate |-> Null ] }

IdInit ==
    /\ idIn \in IdInputs
    /\ idStore = NoDocs
    /\ idDocId = NoId
    /\ idDup = "none"

IdIdle ==
    /\ idIn = [ advtNo |-> Null, postName |-> JuniorEngineer, issuedDate |-> Null ]
    /\ idStore = NoDocs
    /\ idDocId = NoId
    /\ idDup = "done"

\* saveJob(record)
IdSave(record) ==
    /\ idDup = "none"
    /\ Cardinality(DOMAIN idStore) < MaxSaved
    /\ saveJobDocId(record) \notin DOMAIN idStore
    /\ idStore' = saveJob(idStore, record, 0)
    /\ UNCHANGED << idIn, idDocId, idDup >>
    /\ UNCHANGED notId

\* generateDocId(advtNo, postName, issuedDate)
IdResolve ==
    /\ idDocId = NoId
    /\ idDocId' = generateDocId(idIn.advtNo, idIn.postName, idIn.issuedDate)
    /\ UNCHANGED << idIn, idStore, idDup >>
    /\ UNCHANGED notId

\* checkDuplicate(advtNo, postName, issuedDate); doc('') raises
IdCheckDuplicate ==
    /\ idDup = "none"
    /\ idDup' = IF Truthy(idIn.advtNo) /\ checkDuplicateDocId(idIn.advtNo) = << >>
                THEN "threw"
                ELSE IF checkDuplicate(idStore, idIn.advtNo) THEN "true" ELSE "false"
    /\ UNCHANGED << idIn, idStore, idDocId >>
    /\ UNCHANGED notId

IdNext ==
    \/ \E record \in { idIn } \cup OtherRecords : IdSave(record)
    \/ IdResolve
    \/ IdCheckDuplicate

(***************************************************************************)
(* The kill switch (killSwitch.js): the control record                     *)
(* system_controls/scraper, read at the check points of a run.             *)
(***************************************************************************)
NoControl == [ exists |-> FALSE ]
\* the values the field enabled of the control record may hold; "undefined"
\* is a record without the field
EnabledValues == { "true", "false", "undefined", "null", "0", "'false'" }
ControlDoc(value) == [ exists |-> TRUE, enabled |-> value ]

\* only an explicit true counts as enabled
ReadsEnabled_Strict(value) == value = "true"

\* line 61: controlData.enabled !== false
ReadsEnabled(value) == value # "false"

\* the guard left out: every call that finds the switch off alerts
AlertDue_EveryCall(production, checked) == production

\* line 70: isProduction && !killSwitchChecked
AlertDue(production, checked) == production /\ ~checked

KsInit ==
    /\ isProduction \in BOOLEAN
    /\ ksDoc \in { NoControl } \cup { ControlDoc(v) : v \in EnabledValues }
    /\ killSwitchChecked = FALSE
    /\ ksAlerts = 0
    /\ ksLog = << >>

KsIdle ==
    /\ isProduction = FALSE
    /\ ksDoc = NoControl
    /\ killSwitchChecked = FALSE
    /\ ksAlerts = 0
    /\ ksLog = << >>

KsCall(seen, ret, alerted, store) ==
    [ seen |-> seen, ret |-> ret, alerted |-> alerted, store |-> store ]

\* lines 39-98: one call; getOk and writeOk say whether the store's read and
\* write go through
CheckKillSwitch(getOk, writeOk) ==
    /\ Len(ksLog) < MaxChecks
    /\ IF ~getOk
       THEN /\ ksLog' = Append(ksLog, KsCall("unread", "threw", FALSE, "failed"))
            /\ UNCHANGED << ksDoc, killSwitchChecked, ksAlerts >>
       ELSE IF ~ksDoc.exists
       THEN /\ ksDoc' = IF writeOk THEN ControlDoc("true") ELSE ksDoc
            /\ ksLog' = Append(ksLog,
                               IF writeOk THEN KsCall("missing", "true", FALSE, "ok")
                               ELSE KsCall("missing", "threw", FALSE, "failed"))
            /\ UNCHANGED << killSwitchChecked, ksAlerts >>
       ELSE IF ~ReadsEnabled(ksDoc.enabled)
       THEN /\ ksAlerts' = IF AlertDue(isProduction, killSwitchChecked)
                           THEN ksAlerts + 1 ELSE ksAlerts
            /\ killSwitchChecked' = TRUE
            /\ ksLog' = Append(ksLog,
                               KsCall(ksDoc.enabled, "false",
                                      AlertDue(isProduction, killSwitchChecked), "ok"))
            /\ UNCHANGED ksDoc
       ELSE /\ ksLog' = Append(ksLog,
                               IF writeOk THEN KsCall(ksDoc.enabled, "true", FALSE, "ok")
                               ELSE KsCall(ksDoc.enabled, "threw", FALSE, "failed"))
            /\ UNCHANGED << ksDoc, killSwitchChecked, ksAlerts >>
    /\ UNCHANGED isProduction
    /\ UNCHANGED notKs

\* lines 104-117
EnableScraper ==
    /\ ksDoc' = ControlDoc("true")
    /\ UNCHANGED << isProduction, killSwitchChecked, ksAlerts, ksLog >>
    /\ UNCHANGED notKs

\* lines 123-136
DisableScraper ==
    /\ ksDoc' = ControlDoc("false")
    /\ UNCHANGED << isProduction, killSwitchChecked, ksAlerts, ksLog >>
    /\ UNCHANGED notKs

KsNext ==
    \/ \E getOk \in BOOLEAN, writeOk \in BOOLEAN : CheckKillSwitch(getOk, writeOk)
    \/ EnableScraper
    \/ DisableScraper

(***************************************************************************)
(* The alert sink (alerting.js): sendAlert and the helpers built on it,    *)
(* next to the kill-switch check that calls it.                            *)
(***************************************************************************)
AlertHelpers == { "sendAlert", "alertStructureChange", "alertConsecutiveZeroJobs",
                  "alertFirestoreFailure", "alertScraperCrash" }

\* alerting.js lines 18-48, and lines 53-112 for the helpers, each of which
\* awaits sendAlert: the alert is written out, whatever the runtime mode
SendAlert(helper) ==
    /\ helper \in AlertHelpers
    /\ ksAlerts < MaxAlerts
    /\ ksAlerts' = ksAlerts + 1
    /\ UNCHANGED << isProduction, ksDoc, killSwitchChecked, ksLog >>
    /\ UNCHANGED notKs

AlertSinkNext ==
    \/ \E getOk \in BOOLEAN, writeOk \in BOOLEAN : CheckKillSwitch(getOk, writeOk)
    \/ DisableScraper
    \/ \E helper \in AlertHelpers : SendAlert(helper)

(***************************************************************************)
(* initializeRun (scraperMetrics.js, step 7) called by several executions. *)
(***************************************************************************)
\* DocumentReference.set(data): the document is created or replaced
SetDoc(stored, key, data) ==
    [ k \in (DOMAIN stored) \cup { key } |-> IF k = key THEN data ELSE stored[k] ]

StartInit ==
    /\ iRuns = NoDocs
    /\ iCurrentRunId = [ p \in Procs |-> NoRun ]
    /\ iInits = [ p \in Procs |-> 0 ]
    /\ iRet = [ p \in Procs |-> "none" ]

StartIdle == StartInit

\* lines 22-44
StartInitializeRun(p, storeOk) ==
    /\ iInits[p] < MaxInits
    /\ iInits' = [ iInits EXCEPT ![p] = @ + 1 ]
    /\ iCurrentRunId' = [ iCurrentRunId EXCEPT ![p] = IsoTime(wallClock) ]
    /\ IF storeOk
       THEN /\ iRuns' = SetDoc(iRuns, IsoTime(wallClock), runDoc(IsoTime(wallClock)))
            /\ iRet' = [ iRet EXCEPT ![p] = "ok" ]
       ELSE /\ iRet' = [ iRet EXCEPT ![p] = "threw" ]
            /\ UNCHANGED iRuns
    /\ UNCHANGED wallClock
    /\ UNCHANGED notStart

\* lines 62-72: incrementCounter('jobsFound') by a process whose run record
\* exists
StartIncrementCounter(p) ==
    /\ iCurrentRunId[p] \in DOMAIN iRuns
    /\ iRuns[iCurrentRunId[p]].jobsFound < 1
    /\ iRuns' = [ iRuns EXCEPT ![iCurrentRunId[p]].jobsFound = @ + 1 ]
    /\ UNCHANGED << iCurrentRunId, iInits, iRet, wallClock >>
    /\ UNCHANGED notStart

\* time passes
StartTick ==
    /\ wallClock < MaxTicks * TickMs
    /\ wallClock' = wallClock + TickMs
    /\ UNCHANGED startVars
    /\ UNCHANGED notStart

StartNext ==
    \/ \E p \in Procs, storeOk \in BOOLEAN : StartInitializeRun(p, storeOk)
    \/ \E p \in Procs : StartIncrementCounter(p)
    \/ StartTick

(***************************************************************************)
(* saveJob (firestoreService.js) called with the records the loop of       *)
(* scrapeJobs builds for a listing in successive attempts.                 *)
(***************************************************************************)
DeadlineError == "Deadline exceeded"
NoAttempt == [ parsingErrors |-> << >> ]

\* the listings of a page of two rows, read at time 1
SaveListings == extractJobs(PageRows(2, FALSE), 1)

\* scraper.js lines 158-175 and 177-200: the record of the try block (the
\* document parsed, or not) and the partial record of the catch block with the
\* message of the failure
AttemptRecords(now) ==
    { normalizeJobData(
         TryRawData(job, downloadAndParsePdf(outcome,
                                             Extracted([ advt |-> job.advtNo ], TRUE))),
         now) :
        job \in Range(SaveListings), outcome \in { "ok" } \cup ParseFailures }
    \cup
    { normalizeJobData(PartialRawData(job, message), now) :
        job \in Range(SaveListings), message \in { StoreError, DeadlineError } }

SaveInit ==
    /\ sJobs = NoDocs
    /\ sClock = 1
    /\ sLast = NoAttempt

SaveIdle == SaveInit

\* lines 53-68: one saveJob call
SaveJob(job) ==
    /\ sClock <= MaxWrites
    /\ sJobs' = saveJob(sJobs, job, sClock)
    /\ sLast' = job
    /\ sClock' = sClock + 1
    /\ UNCHANGED notSave

SaveNext == \E job \in AttemptRecords(sClock) : SaveJob(job)

(***************************************************************************)
(* shouldAlert (errorHandler.js): the type name is classified again as if  *)
(* it were an error message.                                               *)
(***************************************************************************)
\* String.prototype.includes
Includes(text, part) ==
    \E i \in 0..(Len(text) - Len(part)) : SubSeq(text, i + 1, i + Len(part)) = part

\* line 29: /5\d{2}/.test(message)
MatchesFiveXX(text) ==
    \E i \in 1..(Len(text) - 2) :
       text[i] = "5" /\ IsDigit(text[i + 1]) /\ IsDigit(text[i + 2])

\* the phrases of lines 23-28, 42-45, 59-62 and 76-79, letter by letter
PhraseText ==
    [ v \in Vocabulary \ { "5xx" } |->
         CASE v = "certificate" -> << "c", "e", "r", "t", "i", "f", "i", "c", "a", "t", "e" >>
         [] v = "timeout" -> << "t", "i", "m", "e", "o", "u", "t" >>
         [] v = "econnrefused" -> << "e", "c", "o", "n", "n", "r", "e", "f", "u", "s", "e", "d" >>
         [] v = "enotfound" -> << "e", "n", "o", "t", "f", "o", "u", "n", "d" >>
         [] v = "network" -> << "n", "e", "t", "w", "o", "r", "k" >>
         [] v = "dns" -> << "d", "n", "s" >>
         [] v = "pdf text too short" -> << "p", "d", "f", " ", "t", "e", "x", "t", " ", "t", "o", "o", " ", "s", "h", "o", "r", "t" >>
         [] v = "scanned" -> << "s", "c", "a", "n", "n", "e", "d" >>
         [] v = "empty" -> << "e", "m", "p", "t", "y" >>
         [] v = "could not extract" -> << "c", "o", "u", "l", "d", " ", "n", "o", "t", " ", "e", "x", "t", "r", "a", "c", "t" >>
         [] v = "no job listings found" -> << "n", "o", " ", "j", "o", "b", " ", "l", "i", "s", "t", "i", "n", "g", "s", " ", "f", "o", "u", "n", "d" >>
         [] v = "all selectors failed" -> << "a", "l", "l", " ", "s", "e", "l", "e", "c", "t", "o", "r", "s", " ", "f", "a", "i", "l", "e", "d" >>
         [] v = "page structure changed" -> << "p", "a", "g", "e", " ", "s", "t", "r", "u", "c", "t", "u", "r", "e", " ", "c", "h", "a", "n", "g", "e", "d" >>
         [] v = "table not found" -> << "t", "a", "b", "l", "e", " ", "n", "o", "t", " ", "f", "o", "u", "n", "d" >>
         [] v = "firestore" -> << "f", "i", "r", "e", "s", "t", "o", "r", "e" >>
         [] v = "permission denied" -> << "p", "e", "r", "m", "i", "s", "s", "i", "o", "n", " ", "d", "e", "n", "i", "e", "d" >>
         [] v = "quota exceeded" -> << "q", "u", "o", "t", "a", " ", "e", "x", "c", "e", "e", "d", "e", "d" >>
         [] v = "deadline exceeded" -> << "d", "e", "a", "d", "l", "i", "n", "e", " ", "e", "x", "c", "e", "e", "d", "e", "d" >> ]

\* lines 19-79: the vocabulary phrases the lower-cased message contains
MessagePhrases(message) ==
    { v \in Vocabulary \ { "5xx" } : Includes(toLowerCase(message), PhraseText[v]) }
    \cup (IF MatchesFiveXX(toLowerCase(message)) THEN { "5xx" } ELSE {})

\* lines 8-13: the values of ErrorType, letter by letter
TypeName ==
    [ t \in ErrorType |->
         CASE t = "NETWORK_ERROR" -> << "N", "E", "T", "W", "O", "R", "K", "_", "E", "R", "R", "O", "R" >>
         [] t = "PARSE_ERROR" -> << "P", "A", "R", "S", "E", "_", "E", "R", "R", "O", "R" >>
         [] t = "STRUCTURE_CHANGE" -> << "S", "T", "R", "U", "C", "T", "U", "R", "E", "_", "C", "H", "A", "N", "G", "E" >>
         [] t = "FIRESTORE_ERROR" -> << "F", "I", "R", "E", "S", "T", "O", "R", "E", "_", "E", "R", "R", "O", "R" >> ]

\* lines 133-163
shouldAlert(errorType, context) ==
    LET classification == classifyError(MessagePhrases(TypeName[errorType]), context)
    IN  IF classification.type = "STRUCTURE_CHANGE" THEN TRUE
        ELSE IF classification.type = "FIRESTORE_ERROR" /\ context.retriesExhausted
        THEN TRUE
        ELSE IF context.consecutiveZeroJobRuns >= 2 THEN TRUE
        ELSE IF context.scraperCrashed THEN TRUE
        ELSE FALSE

\* the context bags of classifyError, with the fields shouldAlert reads
AlertContexts ==
    [ isPdfParsing : BOOLEAN, isFirestoreOperation : BOOLEAN,
      jobsFound : {0, 1}, expectedJobs : BOOLEAN,
      retriesExhausted : BOOLEAN, consecutiveZeroJobRuns : 0..MaxZeroRuns,
      scraperCrashed : BOOLEAN ]
NoAlertContext ==
    [ isPdfParsing |-> FALSE, isFirestoreOperation |-> FALSE,
      jobsFound |-> 1, expectedJobs |-> FALSE,
      retriesExhausted |-> FALSE, consecutiveZeroJobRuns |-> 0,
      scraperCrashed |-> FALSE ]

AlertInit ==
    /\ saMsg \in RetryMessages
    /\ saCtx \in AlertContexts
    /\ saVerdict = NoVerdict
    /\ saType = "none"
    /\ saResult = "none"

AlertIdle ==
    /\ saMsg = {}
    /\ saCtx = NoAlertContext
    /\ saVerdict = NoVerdict
    /\ saType = "none"
    /\ saResult = "none"

\* the error is classified
AlertClassify ==
    /\ saVerdict = NoVerdict
    /\ saVerdict' = classifyError(saMsg, saCtx)
    /\ UNCHANGED << saMsg, saCtx, saType, saResult >>
    /\ UNCHANGED notAlert

\* shouldAlert(errorType, context) is called
ShouldAlert(errorType) ==
    /\ saResult = "none"
    /\ saType' = errorType
    /\ saResult' = IF shouldAlert(errorType, saCtx) THEN "true" ELSE "false"
    /\ UNCHANGED << saMsg, saCtx, saVerdict >>
    /\ UNCHANGED notAlert

AlertNext ==
    \/ AlertClassify
    \/ \E errorType \in ErrorType : ShouldAlert(errorType)

(***************************************************************************)
(* checkKillSwitch step by step: its get and its write are two awaited     *)
(* store calls, and enableScraper / disableScraper of another process may  *)
(* complete between them.                                                  *)
(***************************************************************************)
RaceInit ==
    /\ ckPc = "idle"
    /\ ckSnapshot = NoControl
    /\ ckAfterDisable = FALSE
    /\ ckRet = "none"
    /\ disableCompleted = FALSE

RaceIdle == RaceInit

\* lines 51-55: controlRef.set({ enabled: true, ... }) without merge
CreatedControl == ControlDoc("true")

\* lines 45-46: the call reads the control record
CheckGet(getOk) ==
    /\ ckPc = "idle"
    /\ IF getOk
       THEN /\ ckPc' = "got"
            /\ ckSnapshot' = ksDoc
            /\ ckAfterDisable' = disableCompleted
            /\ UNCHANGED ckRet
       ELSE /\ ckRet' = "threw"
            /\ ckAfterDisable' = disableCompleted
            /\ UNCHANGED << ckPc, ckSnapshot >>
    /\ UNCHANGED << disableCompleted, ksVars >>
    /\ UNCHANGED notKsRace

\* lines 49-92: the call acts on what it read
CheckFinish(writeOk) ==
    /\ ckPc = "got"
    /\ ckPc' = "idle"
    /\ IF ~ckSnapshot.exists
       THEN /\ ksDoc' = IF writeOk THEN CreatedControl ELSE ksDoc
            /\ ckRet' = IF writeOk THEN "true" ELSE "threw"
            /\ UNCHANGED << killSwitchChecked, ksAlerts >>
       ELSE IF ~ReadsEnabled(ckSnapshot.enabled)
       THEN /\ ksAlerts' = IF AlertDue(isProduction, killSwitchChecked)
                           THEN ksAlerts + 1 ELSE ksAlerts
            /\ killSwitchChecked' = TRUE
            /\ ckRet' = "false"
            /\ UNCHANGED ksDoc
       ELSE /\ ckRet' = IF writeOk THEN "true" ELSE "threw"
            /\ UNCHANGED << ksDoc, killSwitchChecked, ksAlerts >>
    /\ UNCHANGED << ckSnapshot, ckAfterDisable, disableCompleted, isProduction, ksLog >>
    /\ UNCHANGED notKsRace

\* lines 104-117, run by the operator
RaceEnableScraper ==
    /\ ksDoc' = ControlDoc("true")
    /\ disableCompleted' = FALSE
    /\ UNCHANGED << ckPc, ckSnapshot, ckAfterDisable, ckRet >>
    /\ UNCHANGED << isProduction, killSwitchChecked, ksAlerts, ksLog >>
    /\ UNCHANGED notKsRace

\* lines 123-136, run by the operator
RaceDisableScraper ==
    /\ ksDoc' = ControlDoc("false")
    /\ disableCompleted' = TRUE
    /\ UNCHANGED << ckPc, ckSnapshot, ckAfterDisable, ckRet >>
    /\ UNCHANGED << isProduction, killSwitchChecked, ksAlerts, ksLog >>
    /\ UNCHANGED notKsRace

RaceNext ==
    \/ \E getOk \in BOOLEAN : CheckGet(getOk)
    \/ \E writeOk \in BOOLEAN : CheckFinish(writeOk)
    \/ RaceEnableScraper
    \/ RaceDisableScraper

(***************************************************************************)
(* The entry point (scraper.js, and the start-up sequence of               *)
(* STEP5_COMPLETE.md with the handlers of setupLockCleanup): the kill      *)
(* switch is checked, the run lock acquired, scrapeJobs run, and the       *)
(* process ends with an exit code.                                         *)
(***************************************************************************)
NoResult == [ jobsFound |-> -1, jobsAdded |-> -1, errors |-> -1 ]
\* what scrapeJobs returns: the listings found, added, and failed
RunResults == { r \in [ jobsFound : 0..MaxJobs, jobsAdded : 0..MaxJobs, errors : 0..MaxJobs ] :
                  r.jobsAdded + r.errors <= r.jobsFound }
Signals == { "SIGINT", "SIGTERM" }
Escapes == { "uncaughtException", "unhandledRejection" }
GateReturns == { "true", "false", "threw" }

\* every closed gate treated as a failure
GateExitCode_Failure(gate) == 1

\* if (!lockAcquired) process.exit(0): another instance is running;
\* if (!enabled) process.exit(1): the scraper is disabled
GateExitCode(gate) == IF gate = "locked" THEN 0 ELSE 1

\* process.exit(result.status === 'FAILED' ? 1 : 0)
RunExitCode(status) == IF status = "FAILED" THEN 1 ELSE 0

\* the handlers of setupLockCleanup: SIGINT and SIGTERM exit with 0,
\* uncaughtException and unhandledRejection with 1
HandlerExitCode(event) == IF event \in Signals THEN 0 ELSE 1

ProcInit ==
    /\ procPc = "start"
    /\ procLock \in { "free", "other" }
    /\ procLockHeld = FALSE
    /\ procResult = NoResult
    /\ procLogged = "none"
    /\ procReleases = 0
    /\ procCause = "none"
    /\ procExitCode = -1

ProcIdle ==
    /\ procPc = "exited"
    /\ procLock = "free"
    /\ procLockHeld = FALSE
    /\ procResult = NoResult
    /\ procLogged = "none"
    /\ procReleases = 0
    /\ procCause = "none"
    /\ procExitCode = 0

\* process.exit(code)
ProcExit(cause, code) ==
    /\ procPc' = "exited"
    /\ procCause' = cause
    /\ procExitCode' = code

\* releaseLock: nothing without the flag; else the record is deleted and the
\* flag cleared, and a failure of the delete is logged and swallowed
ProcRelease(deleteOk) ==
    /\ procReleases' = procReleases + 1
    /\ IF procLockHeld /\ deleteOk
       THEN procLock' = "free" /\ procLockHeld' = FALSE
       ELSE UNCHANGED << procLock, procLockHeld >>

\* checkKillSwitch('startup'): disabled -> exit; a store error is not caught
ProcCheckKillSwitch(enabled) ==
    /\ procPc = "start"
    /\ enabled \in GateReturns
    /\ CASE enabled = "true"  -> /\ procPc' = "gate"
                                 /\ UNCHANGED << procCause, procExitCode >>
         [] enabled = "false" -> ProcExit("kill-switch", GateExitCode("kill-switch"))
         [] OTHER             -> ProcExit("fatal", 1)
    /\ UNCHANGED << procLock, procLockHeld, procResult, procLogged, procReleases >>
    /\ UNCHANGED notProc

\* acquireLock, then setupLockCleanup: false -> exit; a store error is not caught
ProcAcquireLock(storeOk) ==
    /\ procPc = "gate"
    /\ IF ~storeOk THEN /\ ProcExit("fatal", 1)
                        /\ UNCHANGED << procLock, procLockHeld >>
       ELSE IF procLock = "other"
            THEN /\ ProcExit("locked", GateExitCode("locked"))
                 /\ UNCHANGED << procLock, procLockHeld >>
            ELSE /\ procLock' = "self"
                 /\ procLockHeld' = TRUE
                 /\ procPc' = "running"
                 /\ UNCHANGED << procCause, procExitCode >>
    /\ UNCHANGED << procResult, procLogged, procReleases >>
    /\ UNCHANGED notProc

\* scrapeJobs resolves: the result is logged
ProcRunResolves(r) ==
    /\ procPc = "running"
    /\ r \in RunResults
    /\ procResult' = r
    /\ procLogged' = ResultStatus(r)
    /\ procPc' = "ran"
    /\ UNCHANGED << procLock, procLockHeld, procReleases, procCause, procExitCode >>
    /\ UNCHANGED notProc

\* scrapeJobs rejects: the failure is logged and the process exits at once
ProcRunRejects ==
    /\ procPc = "running"
    /\ procLogged' = "FAILED"
    /\ ProcExit("fatal", 1)
    /\ UNCHANGED << procLock, procLockHeld, procResult, procReleases >>
    /\ UNCHANGED notProc

\* after the run: releaseLock, then the exit of the resolved promise
ProcFinish(deleteOk) ==
    /\ procPc = "ran"
    /\ ProcRelease(deleteOk)
    /\ ProcExit(IF procResult.errors > 0 THEN "partial" ELSE "success", RunExitCode(procLogged))
    /\ UNCHANGED << procResult, procLogged >>
    /\ UNCHANGED notProc

\* a signal, an uncaught exception or an unhandled rejection once the handlers
\* are installed: releaseLock, then exit
ProcHandler(event, deleteOk) ==
    /\ procPc \in { "running", "ran" }
    /\ event \in Signals \cup Escapes
    /\ ProcRelease(deleteOk)
    /\ ProcExit(event, HandlerExitCode(event))
    /\ UNCHANGED << procResult, procLogged >>
    /\ UNCHANGED notProc

ProcNext ==
    \/ \E enabled \in GateReturns : ProcCheckKillSwitch(enabled)
    \/ \E storeOk \in BOOLEAN : ProcAcquireLock(storeOk)
    \/ \E r \in RunResults : ProcRunResolves(r)
    \/ ProcRunRejects
    \/ \E deleteOk \in BOOLEAN : ProcFinish(deleteOk)
    \/ \E event \in Signals \cup Escapes, deleteOk \in BOOLEAN : ProcHandler(event, deleteOk)

(***************************************************************************)
(* The status of a run (scraperMetrics.js, step 4, calculateRunStatus).    *)
(***************************************************************************)
\* the metrics a run may end with
MetricsValues ==
    [ structureErrors : 0..1, scraperCrashed : BOOLEAN, jobsFound : 0..MaxJobs,
      expectedZeroJobs : BOOLEAN, jobsSaved : 0..MaxJobs, networkErrors : 0..1,
      parseErrors : 0..1 ]
NoMetrics ==
    [ structureErrors |-> 0, scraperCrashed |-> FALSE, jobsFound |-> 0,
      expectedZeroJobs |-> FALSE, jobsSaved |-> 0, networkErrors |-> 0, parseErrors |-> 0 ]

\* the derivation without the crash flag
calculateRunStatus_NoCrashFlag(m) ==
    IF m.structureErrors > 0 THEN "FAILED"
    ELSE IF m.jobsFound = 0 /\ ~m.expectedZeroJobs THEN "FAILED"
    ELSE IF m.jobsSaved > 0 /\ (m.networkErrors > 0 \/ m.parseErrors > 0) THEN "PARTIAL"
    ELSE IF m.jobsSaved > 0 THEN "SUCCESS"
    ELSE "FAILED"

\* part_005, lines 90-113
calculateRunStatus(m) ==
    IF m.structureErrors > 0 \/ m.scraperCrashed THEN "FAILED"
    ELSE IF m.jobsFound = 0 /\ ~m.expectedZeroJobs THEN "FAILED"
    ELSE IF m.jobsSaved > 0 /\ (m.networkErrors > 0 \/ m.parseErrors > 0) THEN "PARTIAL"
    ELSE IF m.jobsSaved > 0 THEN "SUCCESS"
    ELSE "FAILED"

StatusInit ==
    /\ runMetrics \in MetricsValues
    /\ runStatus = "none"

StatusIdle ==
    /\ runMetrics = NoMetrics
    /\ runStatus = "done"

\* calculateRunStatus is applied to the metrics
CalculateRunStatus ==
    /\ runStatus = "none"
    /\ runStatus' = calculateRunStatus(runMetrics)
    /\ UNCHANGED runMetrics
    /\ UNCHANGED notStatus

(***************************************************************************)
(* The runtime mode (runtimeConfig.js).  An environment variable is a      *)
(* text, or Null when it is not set.                                       *)
(***************************************************************************)
EnvProduction == << "p", "r", "o", "d", "u", "c", "t", "i", "o", "n" >>
EnvProductionUpper == << "P", "R", "O", "D", "U", "C", "T", "I", "O", "N" >>
EnvProd == << "p", "r", "o", "d" >>
EnvProdMixed == << "P", "r", "o", "d" >>
EnvProductionPadded == << "p", "r", "o", "d", "u", "c", "t", "i", "o", "n", " " >>
EnvStaging == << "s", "t", "a", "g", "i", "n", "g" >>
EnvStagingUpper == << "S", "T", "A", "G", "I", "N", "G" >>
EnvDevelopment == << "d", "e", "v", "e", "l", "o", "p", "m", "e", "n", "t" >>
EnvTest == << "t", "e", "s", "t" >>
EnvLive == << "l", "i", "v", "e" >>
\* the values NODE_ENV may have
NodeEnvs == { Null, << >>, EnvProduction, EnvProductionUpper, EnvProd, EnvProdMixed,
              EnvProductionPadded, EnvStaging, EnvStagingUpper, EnvDevelopment, EnvTest,
              EnvLive }
\* the values a required setting may have
SettingValues == { Null, << >>, << "x" >> }
\* lines 48-51
RequiredSettings == { "FIREBASE_SERVICE_ACCOUNT", "ALERT_EMAIL" }

\* the mode read without lower-casing
getRuntimeMode_CaseSensitive(NODE_ENV) ==
    LET nodeEnv == IF Truthy(NODE_ENV) THEN NODE_ENV ELSE EnvDevelopment
    IN  IF nodeEnv = EnvProduction \/ nodeEnv = EnvProd THEN "production"
        ELSE IF nodeEnv = EnvStaging THEN "staging"
        ELSE "development"

\* lines 23-35: process.env.NODE_ENV?.toLowerCase() || 'development'
getRuntimeMode(NODE_ENV) ==
    LET lowered == IF NODE_ENV = Null THEN Null ELSE toLowerCase(NODE_ENV)
        nodeEnv == IF Truthy(lowered) THEN lowered ELSE EnvDevelopment
    IN  IF nodeEnv = EnvProduction \/ nodeEnv = EnvProd THEN "production"
        ELSE IF nodeEnv = EnvStaging THEN "staging"
        ELSE "development"

\* line 53: required.filter(key => !process.env[key])
MissingSettings(env) == { key \in RequiredSettings : ~Truthy(env[key]) }

CfgInit ==
    /\ processEnv \in [ NODE_ENV : NodeEnvs, FIREBASE_SERVICE_ACCOUNT : SettingValues,
                        ALERT_EMAIL : SettingValues ]
    /\ RUNTIME_MODE = getRuntimeMode(processEnv.NODE_ENV)
    /\ cfgPc = "loaded"
    /\ cfgExitCode = -1

CfgIdle ==
    /\ processEnv = [ NODE_ENV |-> Null, FIREBASE_SERVICE_ACCOUNT |-> Null,
                      ALERT_EMAIL |-> Null ]
    /\ RUNTIME_MODE = "development"
    /\ cfgPc = "done"
    /\ cfgExitCode = 0

\* lines 88-104 and 43-70: initRuntimeConfig; in production validateProductionConfig
\* ends the process with code 1 when a required setting is missing
InitRuntimeConfig ==
    /\ cfgPc = "loaded"
    /\ IF RUNTIME_MODE = "production" /\ MissingSettings(processEnv) # {}
       THEN /\ cfgPc' = "exited"
            /\ cfgExitCode' = 1
       ELSE /\ cfgPc' = "initialized"
            /\ UNCHANGED cfgExitCode
    /\ UNCHANGED << processEnv, RUNTIME_MODE >>
    /\ UNCHANGED notCfg

(***************************************************************************)
(* normalizeJobData (normalizer.js) applied to one raw record, then to the *)
(* record it returned.                                                     *)
(***************************************************************************)
NoJob == [ status |-> "none" ]
BlankText == << " ", " " >>
TempAdvt == << "T", "E", "M", "P", "_", "1" >>
LowerAdvt == << "s", "p", "s", "c", "/", "5", " " >>
SpacedName == << " ", " ", "j", "u", "n", "i", "o", "r", " ", " ", " ", "e", "n", "g", "i", "n", "e", "e", "r", " " >>
HomeDept == << "H", "o", "m", "e", " ", " ", "D", "e", "p", "t" >>
Graduate == << "G", "r", "a", "d", "u", "a", "t", "e" >>
PostsFive == << "5" >>
PostsZero == << "0" >>
PostsMinus == << "-", "3" >>
PostsWord == << "m", "a", "n", "y" >>
DatePast == << "0", "5", "/", "1", "2", "/", "2", "0", "2", "5" >>
DatePastLate == << "2", "0", "/", "1", "2", "/", "2", "0", "2", "5" >>
DateFuture == << "1", "5", "/", "0", "1", "/", "2", "0", "2", "6" >>
DateDashedShort == << "3", "1", "-", "1", "2", "-", "2", "5" >>
DateWord == << "s", "o", "o", "n" >>
PdfLink == "https://spscskm.gov.in/notice.pdf"

\* the raw records: each field absent, empty, blank, a placeholder, malformed
\* or well formed
RawRecords ==
    [ advtNo : { Null, << >>, BlankText, TempAdvt, LowerAdvt },
      postName : { Null, BlankText, UnknownPosition, SpacedName },
      department : { Null, BlankText, HomeDept },
      totalPosts : { Null, PostsFive, PostsZero, PostsMinus, PostsWord },
      qualification : { Null, BlankText, Graduate },
      lastDate : { Null, DatePast, DatePastLate, DateFuture, DateDashedShort, DateWord },
      pdfUrl : { PdfLink },
      scrapedAt : { 0 },
      sourceUrl : { "" },
      dataComplete : { "true", "false", "undefined" },
      parsingErrors : { << >> } ]

\* a record normalizeJobData returned, read as its argument: the fields are
\* the values stored, the number and the date in the text form the string
\* functions see
AsRawData(job) ==
    [ advtNo |-> job.advtNo, postName |-> job.postName, department |-> job.department,
      totalPosts |-> NatToText(job.totalPosts), qualification |-> job.qualification,
      lastDate |-> toISOString(job.lastDate), pdfUrl |-> job.pdfUrl,
      scrapedAt |-> job.scrapedAt, sourceUrl |-> job.sourceUrl,
      dataComplete |-> IF job.dataComplete THEN "true" ELSE "false",
      parsingErrors |-> job.parsingErrors ]

NormInit ==
    /\ normRaw \in RawRecords
    /\ normOnce = NoJob
    /\ normTwice = NoJob
    /\ normPc = "raw"

NormIdle ==
    /\ normRaw = NoJob
    /\ normOnce = NoJob
    /\ normTwice = NoJob
    /\ normPc = "done"

\* normalizeJobData(rawData)
NormalizeOnce ==
    /\ normPc = "raw"
    /\ normOnce' = normalizeJobData(normRaw, 1)
    /\ normPc' = "once"
    /\ UNCHANGED << normRaw, normTwice >>
    /\ UNCHANGED notNorm

\* normalizeJobData applied to the record it returned, a millisecond later
NormalizeTwice ==
    /\ normPc = "once"
    /\ normTwice' = normalizeJobData(AsRawData(normOnce), 2)
    /\ normPc' = "twice"
    /\ UNCHANGED << normRaw, normOnce >>
    /\ UNCHANGED notNorm

NormNext == NormalizeOnce \/ NormalizeTwice

(***************************************************************************)
(* The specifications.                                                     *)
(***************************************************************************)
PipeIdle ==
    /\ jobs = NoDocs
    /\ clock = 1
    /\ faults = 0
    /\ runNo = 0
    /\ pc = "exited"
    /\ page = NoPage
    /\ jobsProcessed = 0
    /\ jobsAdded = 0
    /\ errors = 0
    /\ cur = NoRecord
    /\ docId = Null
    /\ result = "none"
    /\ fatalStage = "none"
    /\ exitCode = 0

LockIdle ==
    /\ lock = NoLock
    /\ lockPc = [ p \in Procs |-> "done" ]
    /\ lockT = [ p \in Procs |-> 0 ]
    /\ lockAcquired = [ p \in Procs |-> FALSE ]
    /\ lockRet = [ p \in Procs |-> "none" ]
    /\ lockCalls = [ p \in Procs |-> 0 ]

\* the scraper: runs of scrapeJobs against one job store
Init == PipeInit /\ wallClock = 0 /\ LockIdle /\ RetryIdle /\ ClassIdle /\ RunIdle
        /\ IdIdle /\ KsIdle
    /\ ProcIdle
    /\ StatusIdle
    /\ CfgIdle
    /\ NormIdle
    /\ RaceIdle
    /\ AlertIdle
    /\ SaveIdle
    /\ StartIdle
Next == PipeNext
Spec == Init /\ [][Next]_vars

\* two scraper processes and the run lock
InitLock == PipeIdle /\ wallClock = 0 /\ LockInit /\ RetryIdle /\ ClassIdle /\ RunIdle
            /\ IdIdle /\ KsIdle
    /\ ProcIdle
    /\ StatusIdle
    /\ CfgIdle
    /\ NormIdle
    /\ RaceIdle
    /\ AlertIdle
    /\ SaveIdle
    /\ StartIdle
SpecLock == InitLock /\ [][LockNext]_vars

\* retryOperation applied to an operation that fails as rPlan says
RetryNext == RetryInvoke \/ RetryWake
InitRetry == PipeIdle /\ wallClock = 0 /\ LockIdle /\ RetryInit /\ ClassIdle /\ RunIdle
             /\ IdIdle /\ KsIdle
    /\ ProcIdle
    /\ StatusIdle
    /\ CfgIdle
    /\ NormIdle
    /\ RaceIdle
    /\ AlertIdle
    /\ SaveIdle
    /\ StartIdle
SpecRetry == InitRetry /\ [][RetryNext]_vars

\* the same, with the operation's promise settling and the timer of line 125
\* firing
SpecRetryFair == SpecRetry /\ WF_vars(RetryInvoke) /\ WF_vars(RetryWake)

\* classifyError applied to one error
InitClassify == PipeIdle /\ wallClock = 0 /\ LockIdle /\ RetryIdle /\ ClassInit /\ RunIdle
                /\ IdIdle /\ KsIdle
    /\ ProcIdle
    /\ StatusIdle
    /\ CfgIdle
    /\ NormIdle
    /\ RaceIdle
    /\ AlertIdle
    /\ SaveIdle
    /\ StartIdle
SpecClassify == InitClassify /\ [][Classify]_vars

\* one process and its run record
InitRun == PipeIdle /\ wallClock = 0 /\ LockIdle /\ RetryIdle /\ ClassIdle /\ RunInit
           /\ IdIdle /\ KsIdle
    /\ ProcIdle
    /\ StatusIdle
    /\ CfgIdle
    /\ NormIdle
    /\ RaceIdle
    /\ AlertIdle
    /\ SaveIdle
    /\ StartIdle
SpecRun == InitRun /\ [][RunNext]_vars

\* generateDocId and checkDuplicate applied to one record
InitIdentity ==
    PipeIdle /\ wallClock = 0 /\ LockIdle /\ RetryIdle /\ ClassIdle /\ RunIdle
    /\ IdInit /\ KsIdle
    /\ ProcIdle
    /\ StatusIdle
    /\ CfgIdle
    /\ NormIdle
    /\ RaceIdle
    /\ AlertIdle
    /\ SaveIdle
    /\ StartIdle
SpecIdentity == InitIdentity /\ [][IdNext]_vars

\* one process checking the kill switch while an operator may toggle it
InitKillSwitch ==
    PipeIdle /\ wallClock = 0 /\ LockIdle /\ RetryIdle /\ ClassIdle /\ RunIdle
    /\ IdIdle /\ KsInit
    /\ ProcIdle
    /\ StatusIdle
    /\ CfgIdle
    /\ NormIdle
    /\ RaceIdle
    /\ AlertIdle
    /\ SaveIdle
    /\ StartIdle
SpecKillSwitch == InitKillSwitch /\ [][KsNext]_vars

\* one checkKillSwitch call at a time, interleaved with the operator's
\* enableScraper and disableScraper
InitKillSwitchRace ==
    PipeIdle /\ wallClock = 0 /\ LockIdle /\ RetryIdle /\ ClassIdle /\ RunIdle
    /\ IdIdle /\ KsInit
    /\ ProcIdle
    /\ StatusIdle
    /\ CfgIdle
    /\ NormIdle
    /\ RaceInit
    /\ AlertIdle
    /\ SaveIdle
    /\ StartIdle
SpecKillSwitchRace == InitKillSwitchRace /\ [][RaceNext]_vars

\* one error classified and one question put to shouldAlert
InitAlert ==
    PipeIdle /\ wallClock = 0 /\ LockIdle /\ RetryIdle /\ ClassIdle /\ RunIdle
    /\ IdIdle /\ KsIdle
    /\ ProcIdle
    /\ StatusIdle
    /\ CfgIdle
    /\ NormIdle
    /\ RaceIdle
    /\ AlertInit
    /\ SaveIdle
    /\ StartIdle
SpecAlert == InitAlert /\ [][AlertNext]_vars

\* successive saveJob calls
InitSave ==
    PipeIdle /\ wallClock = 0 /\ LockIdle /\ RetryIdle /\ ClassIdle /\ RunIdle
    /\ IdIdle /\ KsIdle
    /\ ProcIdle
    /\ StatusIdle
    /\ CfgIdle
    /\ NormIdle
    /\ RaceIdle
    /\ AlertIdle
    /\ SaveInit
    /\ StartIdle
SpecSave == InitSave /\ [][SaveNext]_vars

\* several executions starting their runs
InitStart ==
    PipeIdle /\ wallClock = 0 /\ LockIdle /\ RetryIdle /\ ClassIdle /\ RunIdle
    /\ IdIdle /\ KsIdle
    /\ ProcIdle
    /\ StatusIdle
    /\ CfgIdle
    /\ NormIdle
    /\ RaceIdle
    /\ AlertIdle
    /\ SaveIdle
    /\ StartInit
SpecStart == InitStart /\ [][StartNext]_vars

\* a process of any runtime mode checking the kill switch and calling the
\* alert operations
SpecAlertSink == InitKillSwitch /\ [][AlertSinkNext]_vars

\* one process from its start to its exit
InitProcess ==
    PipeIdle /\ wallClock = 0 /\ LockIdle /\ RetryIdle /\ ClassIdle /\ RunIdle
    /\ IdIdle /\ KsIdle
    /\ ProcInit
    /\ StatusIdle
    /\ CfgIdle
    /\ NormIdle
    /\ RaceIdle
    /\ AlertIdle
    /\ SaveIdle
    /\ StartIdle
SpecProcess == InitProcess /\ [][ProcNext]_vars

\* calculateRunStatus applied to one run's metrics
InitStatus ==
    PipeIdle /\ wallClock = 0 /\ LockIdle /\ RetryIdle /\ ClassIdle /\ RunIdle
    /\ IdIdle /\ KsIdle
    /\ ProcIdle
    /\ StatusInit
    /\ CfgIdle
    /\ NormIdle
    /\ RaceIdle
    /\ AlertIdle
    /\ SaveIdle
    /\ StartIdle
SpecStatus == InitStatus /\ [][CalculateRunStatus]_vars

\* initRuntimeConfig under one environment
InitConfig ==
    PipeIdle /\ wallClock = 0 /\ LockIdle /\ RetryIdle /\ ClassIdle /\ RunIdle
    /\ IdIdle /\ KsIdle
    /\ ProcIdle
    /\ StatusIdle
    /\ CfgInit
    /\ NormIdle
    /\ RaceIdle
    /\ AlertIdle
    /\ SaveIdle
    /\ StartIdle
SpecConfig == InitConfig /\ [][InitRuntimeConfig]_vars

\* normalizeJobData applied to one raw record and to its own result
InitNormalize ==
    PipeIdle /\ wallClock = 0 /\ LockIdle /\ RetryIdle /\ ClassIdle /\ RunIdle
    /\ IdIdle /\ KsIdle
    /\ ProcIdle
    /\ StatusIdle
    /\ CfgIdle
    /\ NormInit
    /\ RaceIdle
    /\ AlertIdle
    /\ SaveIdle
    /\ StartIdle
SpecNormalize == InitNormalize /\ [][NormNext]_vars

(***************************************************************************)
(* Properties of the scraper (specification Spec).                         *)
(***************************************************************************)
\* the stored documents made from posting i of the catalogue
DocsOfPosting(i) == { k \in DOMAIN jobs : jobs[k].pdfUrl = Catalogue[i].pdfs[1] }
\* the postings that carry an advertisement number
NumberedPostings == { i \in 1..MaxJobs : Truthy(Catalogue[i].advt) }

\* C2: once a document is stored with dataComplete = true, no later write of
\* saveJob leaves it with dataComplete = false.
C2_NeverDowngraded ==
    [][ \A k \in DOMAIN jobs : jobs[k].dataComplete => jobs'[k].dataComplete ]_vars

\* C3: ingestion is idempotent across runs by advertisement number: whatever the
\* runs did (title revised or not, document parsed or not), the store holds at
\* most one job document for a posting that carries an advertisement number.
C3_OneDocumentPerAdvtNo ==
    \A i \in NumberedPostings : Cardinality(DocsOfPosting(i)) <= 1

\* C9: when the parse of a listing with advertisement number A fails, the
\* record is persisted under the normalized A (17/SPSC/EXAM/2025 under
\* 17_SPSC_EXAM_2025), with dataComplete = false, status active and the parse
\* failure's message among its parsingErrors.
C9_ParseFailureKeepsIdentity ==
    ( /\ pc = "loop"
      /\ cur.saved = "try"
      /\ cur.parse \in ParseFailures
      /\ Truthy(Catalogue[jobsProcessed].advt) )
    => /\ docId = normalizeAdvtNo(Catalogue[jobsProcessed].advt)
       /\ docId \in DOMAIN jobs
       /\ jobs[docId].dataComplete = FALSE
       /\ jobs[docId].status = "active"
       /\ \E n \in DOMAIN jobs[docId].parsingErrors :
             jobs[docId].parsingErrors[n] = cur.parse

\* C10: no failure raised while one listing is handled (duplicate check, parse,
\* normalization, save, partial save) ends the run: the run goes on, every
\* listing the page yielded is attempted, and the run ends as it does without
\* the failure.
C10_PerRecordIsolation ==
    /\ result = "fatal" => fatalStage \in RunStages
    /\ pc \in { "loop", "parse", "catch" } => result = "none"
    /\ (pc = "idle" /\ page.n > 0)
          => /\ jobsProcessed = page.n
             /\ result = "success" \/ fatalStage = "close"

\* a first run of two listings: the first was lost altogether (its handling
\* failed and so did the partial save), the second was saved, the run succeeded
C10_Witness ==
    /\ pc = "idle"
    /\ runNo = 1
    /\ result = "success"
    /\ page.n = 2
    /\ jobsProcessed = 2
    /\ errors = 1
    /\ jobsAdded = 1
    /\ DocsOfPosting(1) = {}
    /\ cur.saved = "try"

\* C20: no scraped record is discarded: once the loop has handled a listing
\* that is not a duplicate, whether its parse failed or a step on it raised, a
\* job document carrying its PDF link is stored, and it has dataComplete =
\* false and a failure message attached when the extraction failed.
C20_NoRecordDiscarded ==
    ( /\ pc = "loop"
      /\ jobsProcessed > 0
      /\ cur.saved \notin { "none", "duplicate" } )
    => /\ docId \in DocsOfPosting(jobsProcessed)
       /\ (cur.parse \in ParseFailures \/ cur.saved # "try")
             => /\ jobs[docId].dataComplete = FALSE
                /\ Len(jobs[docId].parsingErrors) > 0

\* C23: within one run the listings are handled one after the other, in the
\* order of the page, each once: the count of listings started moves by one
\* step, only between two listings, and every write to the store is made while
\* the listing it belongs to is being handled and carries that listing's link.
C23_StrictlySequential ==
    [][ /\ jobsProcessed' # jobsProcessed
           => \/ pc = "idle" /\ jobsProcessed' = 0
              \/ /\ pc = "loop"
                 /\ jobsProcessed < page.n
                 /\ jobsProcessed' = jobsProcessed + 1
                 /\ jobs' = jobs
        /\ jobs' # jobs
           => /\ pc \in { "parse", "catch" }
              /\ pc' = "loop"
              /\ jobsProcessed' = jobsProcessed
              /\ docId' \in DOMAIN jobs'
              /\ jobs'[docId'].pdfUrl = Listings[jobsProcessed].pdfUrls[1]
              /\ \A k \in DOMAIN jobs : k # docId' => jobs'[k] = jobs[k] ]_vars

\* a run of two listings, both stored, the second after the first
C23_Witness ==
    /\ pc = "loop"
    /\ runNo = 1
    /\ page.n = 2
    /\ jobsProcessed = 2
    /\ DocsOfPosting(1) # {}
    /\ docId \in DocsOfPosting(2)

(***************************************************************************)
(* Properties of retryOperation (specification SpecRetry).                 *)
(***************************************************************************)
\* the verdict on the i-th failure of the operation
VerdictOf(i) == classifyError(rPlan[i], rCtx)
RetryDone == rState \in { "returned", "thrown" }

\* C4: an operation that fails exactly maxRetries times (maxRetries of the
\* verdict on its error) and then succeeds makes retryOperation return the
\* success, after waits of 2, 4, 8, ... seconds (2^k seconds before retry k).
C4_RetriesThenSucceeds ==
    ( /\ RetryDone
      /\ Len(rPlan) >= 1
      /\ \A i \in DOMAIN rPlan :
            VerdictOf(i).shouldRetry /\ VerdictOf(i).maxRetries = Len(rPlan) )
    => /\ rState = "returned"
       /\ rCalls = Len(rPlan) + 1
       /\ rWaits = [ k \in 1..Len(rPlan) |-> Pow2(k) * 1000 ]

\* C5: when the first failure is a PARSE_ERROR or a STRUCTURE_CHANGE (verdict
\* shouldRetry = false), the operation is invoked exactly once, nothing is
\* waited for, and that failure is raised.
C5_NotRetryableRaisedAtOnce ==
    ( /\ Len(rPlan) >= 1
      /\ VerdictOf(1).type \in { "PARSE_ERROR", "STRUCTURE_CHANGE" } )
    => /\ rCalls <= 1
       /\ rWaits = << >>
       /\ rState # "waiting"
       /\ rCalls = 1 => (rState = "thrown" /\ rErr = 1)
       /\ RetryDone => rCalls = 1

\* the operation would have succeeded on its third invocation, but its first
\* failure, a parse failure, was raised at once
C5_Witness ==
    /\ rState = "thrown"
    /\ Len(rPlan) = 2
    /\ VerdictOf(1).type = "PARSE_ERROR"
    /\ rPlan[2] = { "timeout" }
    /\ rCalls = 1
    /\ rErr = 1

\* C37: for every job identity, createdAt is set by the first saveJob and
\* left unchanged by every later saveJob to the same identity, while updatedAt
\* is refreshed on every write.
C37_CreatedAtSetOnce ==
    [][ \A key \in DOMAIN jobs :
           /\ key \in DOMAIN jobs'
           /\ jobs'[key].createdAt = jobs[key].createdAt
           /\ jobs'[key] # jobs[key] => jobs'[key].updatedAt = clock ]_vars

\* the sequence before is the beginning of the sequence after
IsPrefix(before, after) ==
    Len(before) <= Len(after) /\ SubSeq(after, 1, Len(before)) = before

\* C40: metadata.parsingErrors is append-only: over successive saveJob writes
\* to the same identity the messages stored by an earlier attempt are never
\* removed or replaced, and their order is kept.
C40_ParsingErrorsAppendOnly ==
    [][ \A key \in DOMAIN sJobs :
           /\ key \in DOMAIN sJobs'
           /\ IsPrefix(sJobs[key].parsingErrors, sJobs'[key].parsingErrors) ]_vars

\* process p's initializeRun call writes its run record in this step
RunStarts(p) == iInits'[p] = iInits[p] + 1 /\ iRet'[p] = "ok"

\* C38: every initializeRun call creates a run record under a runId that
\* differs from the key of every existing run record, also for two calls at
\* the same clock reading, with status running, finishedAt null and all
\* counters zero; it never overwrites an existing run record.
C38_FreshRunRecord ==
    [][ \A p \in Procs :
           RunStarts(p)
              => /\ iCurrentRunId'[p] \notin DOMAIN iRuns
                 /\ iCurrentRunId'[p] \in DOMAIN iRuns'
                 /\ iRuns'[iCurrentRunId'[p]].status = "running"
                 /\ iRuns'[iCurrentRunId'[p]].finishedAt = NoTime
                 /\ \A c \in Counters : iRuns'[iCurrentRunId'[p]][c] = 0
                 /\ \A key \in DOMAIN iRuns : iRuns'[key] = iRuns[key] ]_vars

RECURSIVE SumOf(_)
SumOf(waits) == IF waits = << >> THEN 0 ELSE Head(waits) + SumOf(Tail(waits))

C19_RaisesTheOperationsError ==
    /\ rState = "thrown"
          => /\ rCalls \in DOMAIN rPlan
             /\ rErr = rCalls
             /\ ~VerdictOf(rErr).shouldRetry \/ rAttempt >= VerdictOf(rErr).maxRetries
    /\ (rState = "returned" /\ rCalls > 0) => rCalls = Len(rPlan) + 1
    /\ rState \in { "ready", "waiting" } => rErr = 0

\* a network error was retried after 2 s, the second invocation raised a
\* structure change, and that second error was raised
C19_Witness ==
    /\ rState = "thrown"
    /\ rErr = 2
    /\ VerdictOf(1).type = "NETWORK_ERROR"
    /\ VerdictOf(2).type = "STRUCTURE_CHANGE"
    /\ rWaits = << 2000 >>


(***************************************************************************)
(* Properties of classifyError (specification SpecClassify).               *)
(***************************************************************************)
NetworkMatch == cMsg \cap NetworkPhrases # {}
ParseMatch == cMsg \cap ParsePhrases # {} \/ cCtx.isPdfParsing
StructureMatch ==
    cMsg \cap StructurePhrases # {} \/ (cCtx.jobsFound = 0 /\ cCtx.expectedJobs)
FirestoreMatch == cMsg \cap FirestorePhrases # {} \/ cCtx.isFirestoreOperation

\* C6: classifyError returns one of the four types for every message and
\* context, the first that matches in the order network, parse, structure,
\* store, and NETWORK_ERROR when none matches; "timeout" with "quota exceeded"
\* is a NETWORK_ERROR and no context flag overrides a match of the network
\* phrases.
C6_FirstMatchPrecedence ==
    cVerdict # NoVerdict
    => /\ cVerdict.type \in ErrorType
       /\ cVerdict.type =
             IF NetworkMatch THEN "NETWORK_ERROR"
             ELSE IF ParseMatch THEN "PARSE_ERROR"
             ELSE IF StructureMatch THEN "STRUCTURE_CHANGE"
             ELSE IF FirestoreMatch THEN "FIRESTORE_ERROR"
             ELSE "NETWORK_ERROR"
       /\ { "timeout", "quota exceeded" } \subseteq cMsg => cVerdict.type = "NETWORK_ERROR"

\* "timeout" and "quota exceeded" in one message of a store operation
C6_Witness ==
    /\ cVerdict # NoVerdict
    /\ cMsg = { "timeout", "quota exceeded" }
    /\ cCtx.isFirestoreOperation
    /\ cVerdict.type = "NETWORK_ERROR"

(***************************************************************************)
(* Properties of the run lock (specification SpecLock).                    *)
(***************************************************************************)
\* p's last acquireLock returned true, p has not released, and the lock p
\* wrote has not expired
HoldsLock(p) ==
    /\ lockRet[p] = "true"
    /\ lockAcquired[p]
    /\ lockT[p] + LOCK_TTL_MS > wallClock

\* C1: however the acquireLock calls of two processes interleave, only one of
\* them returns true: at no time do two processes both hold an acquired lock
\* that has not expired.
C1_AtMostOneHolder ==
    \A p \in Procs, q \in Procs : (HoldsLock(p) /\ HoldsLock(q)) => p = q

\* process p starts an acquireLock call in this step
CallStarts(p) == lockCalls'[p] = lockCalls[p] + 1
\* process p's acquireLock call ends with its write in this step
CallWrites(p) == lockPc[p] = "set" /\ lockPc'[p] = "idle"

\* C12: an acquireLock call made when the lock record is absent, or at or after
\* its expiry, returns true (unless the store fails) and replaces the record by
\* one that expires 30 minutes after the call's time; so a lock left behind
\* never blocks for more than 30 minutes.
C12_StaleLockTakenOver ==
    [][ /\ \A p \in Procs :
              (CallStarts(p) /\ (~lock.exists \/ lock.expiresAt <= wallClock))
                 => (lockPc'[p] = "set" \/ lockRet'[p] = "threw")
        /\ \A p \in Procs :
              CallWrites(p)
                 => \/ lockRet'[p] = "threw"
                    \/ /\ lockRet'[p] = "true"
                       /\ lock'.exists
                       /\ lock'.pid = p
                       /\ lock'.expiresAt = lockT[p] + 30 * 60 * 1000
        /\ lock.exists => lock.expiresAt <= wallClock + 30 * 60 * 1000 ]_vars

\* p1 took the lock and never released it; p2 called at the very time it
\* expired and holds the lock now
C12_Witness ==
    /\ lockAcquired["p1"]
    /\ lockRet["p2"] = "true"
    /\ lockT["p2"] = lockT["p1"] + LOCK_TTL_MS
    /\ lock.exists
    /\ lock.pid = "p2"
    /\ lock.expiresAt = lockT["p2"] + LOCK_TTL_MS

\* C13: an acquireLock call that finds an unexpired lock record returns false,
\* does not raise (only a store error is raised), sends no alert and leaves the
\* lock record and the caller's lockAcquired as they were.
C13_HeldLockLeftAlone ==
    [][ \A p \in Procs :
           (CallStarts(p) /\ lock.exists /\ lock.expiresAt > wallClock)
              => /\ lockRet'[p] \in { "false", "threw" }
                 /\ lockPc'[p] = "idle"
                 /\ lock' = lock
                 /\ lockAcquired' = lockAcquired
                 /\ ksAlerts' = ksAlerts ]_vars

\* p2 was turned away by the lock p1 holds
C13_Witness ==
    /\ lockRet["p2"] = "false"
    /\ lockAcquired["p1"]
    /\ ~lockAcquired["p2"]
    /\ lock.exists
    /\ lock.pid = "p1"
    /\ lock.expiresAt > wallClock

\* process p's releaseLock call deletes the lock record in this step
ReleaseDeletes(p) == lockAcquired[p] /\ ~lockAcquired'[p] /\ ~lock'.exists

\* C32: releaseLock only removes a lock record that the releasing process
\* itself wrote: a release by a process whose lock expired and was re-acquired
\* by another process leaves that other process's record in place, so an
\* unexpired lock record disappears only by its own writer's release.
C32_ReleaseOnlyOwnLock ==
    [][ /\ \A p \in Procs :
              (ReleaseDeletes(p) /\ lock.exists) => lock.pid = p
        /\ (lock.exists /\ lock.expiresAt > wallClock /\ ~lock'.exists)
              => ReleaseDeletes(lock.pid) ]_vars


(***************************************************************************)
(* Properties of the run tracker (specification SpecRun).                  *)
(***************************************************************************)
Finalized(run) == run.status \in TerminalStatuses /\ run.finishedAt # NoTime

\* C7: after finalizeRun was called for a run, the run's record has a terminal
\* status and a finishedAt, and no later updateRunMetrics, incrementCounter or
\* finalizeRun changes the record or raises.
C7_FinalizedOnceAndForAll ==
    [][ (mainPc \in { "finalized", "exited" } /\ runId # NoRun)
           => /\ Finalized(runs[runId])
              /\ runs'[runId] = runs[runId]
              /\ ~threw' ]_vars

\* C8: a run whose initializeRun succeeded has a terminal status and a
\* finishedAt once the process has exited, whichever way it left (normally,
\* after a handled failure, after a fatal error): no record stays "running".
C8_NoRunLeftRunning ==
    (mainPc = "exited" /\ runId # NoRun /\ exitPath \in { "normal", "handled", "fatal" })
       => /\ runs[runId].status # "running"
          /\ Finalized(runs[runId])

\* C24: a store failure inside updateRunMetrics, incrementCounter, finalizeRun
\* or logScraperRun is never raised to the caller: every such call made after
\* initializeRun returns normally and the run goes on.
C24_TrackerFailuresSwallowed ==
    [][ (mainPc # "start" /\ (calls' # calls \/ mainPc' # mainPc))
           => /\ ~threw'
              /\ mainPc' \in { mainPc, "finalized", "exited" } ]_vars

\* two calls were made on a run and its finalization too, the store failed
\* each time: the record is as initializeRun wrote it and nothing was raised
C24_Witness ==
    /\ mainPc = "finalized"
    /\ runId # NoRun
    /\ calls = 2
    /\ DOMAIN runs = { runId }
    /\ runs[runId].status = "running"
    /\ \A f \in Counters : runs[runId][f] = 0
    /\ ~threw

\* C25: within a run the counters jobsFound, jobsInserted, jobsSkipped and
\* parsingErrorsCount of the run record start at zero and never decrease,
\* whatever updateRunMetrics and incrementCounter calls are made.
C25_CountersNeverDecrease ==
    [][ \A f \in Counters :
           IF runId = NoRun
           THEN runId' # NoRun => runs'[runId'][f] = 0
           ELSE runs'[runId][f] >= runs[runId][f] ]_vars

(***************************************************************************)
(* Properties of the identity (specification SpecIdentity).                *)
(***************************************************************************)
Id17 == << "1","7","_","S","P","S","C","_","E","X","A","M","_","2","0","2","5" >>
Id19 == << "1","9","_","S","P","S","C","_","E","X","A","M","_","2","0","2","5" >>
Advt19Spaced ==
    << "1","9"," ","/"," ","s","p","s","c"," ","/"," ","e","x","a","m"," ","/"," ",
       "2","0","2","5" >>
DocumentedId(base) == IF base = Advt17 THEN Id17 ELSE Id19
IdChars(id) == \A i \in DOMAIN id : IsUpper(id[i]) \/ IsDigit(id[i]) \/ id[i] = "_"

\* C11: checkDuplicate(advtNo, postName, issuedDate) returns true exactly when
\* a record exists at the key under which saveJob stores a record with those
\* fields (the identity generateDocId gives them), whatever the advertisement
\* number holds and also when it is missing.
C11_LookupAtSaveKey ==
    (idDup \in { "true", "false" } /\ idDocId # NoId)
       => ((idDup = "true") <=> (idDocId \in DOMAIN idStore))

\* C16: advertisement numbers that differ only in letter case, white space or
\* separator ('/' or '-') get the same identity, made of A-Z, 0-9 and '_' only:
\* every spelling of 19/SPSC/EXAM/2025 gives 19_SPSC_EXAM_2025.
C16_SpellingsShareIdentity ==
    idDocId # NoId
       => /\ \A base \in AdvtBases :
                idIn.advtNo \in Spellings(base) => idDocId = DocumentedId(base)
          /\ IdChars(idDocId)

\* "19 / spsc / exam / 2025" was resolved
C16_Witness ==
    /\ idIn.advtNo = Advt19Spaced
    /\ Advt19Spaced \in Spellings(Advt19Upper)
    /\ idDocId = Id19

\* C17: a value that carries the prefix SPSC_ of the fallback form is not
\* taken as an advertisement number: generateDocId resolves it through the
\* fallback path, from postName and issuedDate.
C17_FallbackPrefixNotPrimary ==
    ( /\ idDocId # NoId
      /\ Truthy(idIn.advtNo)
      /\ startsWith(idIn.advtNo, << "S","P","S","C","_" >>) )
       => idDocId = fallbackId(idIn.postName, idIn.issuedDate)

\* C18: without an advertisement number the identity is the documented
\* fallback: Junior Engineer issued 11/12/2025 gives
\* SPSC_20251211_JUNIOR_ENGINEER, and a missing issuedDate gives NODATE in the
\* place of the date.
C18_DocumentedFallback ==
    (idDocId # NoId /\ ~Truthy(idIn.advtNo) /\ idIn.postName = JuniorEngineer)
       => idDocId =
             << "S","P","S","C","_" >>
             \o (IF idIn.issuedDate = Date1112
                 THEN << "2","0","2","5","1","2","1","1" >>
                 ELSE << "N","O","D","A","T","E" >>)
             \o << "_","J","U","N","I","O","R","_","E","N","G","I","N","E","E","R" >>

(***************************************************************************)
(* Properties of the kill switch (specification SpecKillSwitch).           *)
(***************************************************************************)
\* the calls that read the control record with enabled: false
DisabledCalls == { i \in DOMAIN ksLog : ksLog[i].seen = "false" }
FirstDisabledCall == CHOOSE i \in DisabledCalls : \A j \in DisabledCalls : i <= j

\* C14: in production, however many checkKillSwitch calls of one run find the
\* switch off, every one of them returns false and exactly one alert is sent,
\* by the first of them.
C14_OneAlertPerRun ==
    isProduction
       => /\ \A i \in DisabledCalls : ksLog[i].ret = "false"
          /\ ksAlerts = IF DisabledCalls = {} THEN 0 ELSE 1
          /\ \A i \in DOMAIN ksLog :
                ksLog[i].alerted <=> (i \in DisabledCalls /\ i = FirstDisabledCall)

\* three check points of a production run found the switch off
C14_Witness ==
    /\ isProduction
    /\ Len(ksLog) = 3
    /\ DisabledCalls = { 1, 2, 3 }
    /\ ksAlerts = 1

\* C15: the kill switch fails open: a call that finds the control record
\* missing, or its field enabled anything but false, returns true; a call
\* returns false only when enabled is false.  (A call whose store read or
\* write fails raises the store's error.)
C15_FailsOpen ==
    \A i \in DOMAIN ksLog :
       /\ (ksLog[i].store = "ok" /\ ksLog[i].seen # "false") => ksLog[i].ret = "true"
       /\ ksLog[i].ret = "false" => ksLog[i].seen = "false"
       /\ ksLog[i].ret = "threw" <=> ksLog[i].store = "failed"

\* the first check found no control record and passed; the operator switched
\* the scraper off and the next check returned false
C15_Witness ==
    /\ Len(ksLog) >= 2
    /\ ksLog[1].seen = "missing" /\ ksLog[1].ret = "true"
    /\ ksLog[2].seen = "false" /\ ksLog[2].ret = "false"

\* C39: outbound alerting is enabled only in production: in development and
\* staging mode no operation delivers an alert, neither the kill-switch check
\* nor sendAlert and the alert helpers built on it.
C39_AlertsOnlyInProduction ==
    ~isProduction => ksAlerts = 0

(***************************************************************************)
(* The kill switch under interleaving (specification SpecKillSwitchRace).  *)
(***************************************************************************)
\* C31: once disableScraper has completed and until enableScraper runs, the
\* control record holds enabled = false, and every checkKillSwitch call that
\* started after that completion and read the record returns false.
C31_DisableSticks ==
    /\ disableCompleted => (ksDoc.exists /\ ksDoc.enabled = "false")
    /\ (ckAfterDisable /\ disableCompleted /\ ckPc = "idle" /\ ckRet # "threw")
          => ckRet = "false"

(***************************************************************************)
(* Properties of shouldAlert (specification SpecAlert).                    *)
(***************************************************************************)
\* C34: shouldAlert returns true whenever the error type passed to it is
\* STRUCTURE_CHANGE, for every context.
C34_StructureChangeAlwaysAlerted ==
    (saResult # "none" /\ saType = "STRUCTURE_CHANGE") => saResult = "true"

\* the context reports neither a crash nor two consecutive zero-job runs
QuietContext == ~saCtx.scraperCrashed /\ saCtx.consecutiveZeroJobRuns < 2

\* C35: for a FIRESTORE_ERROR that is still going to be retried (retries not
\* exhausted, quiet context), the classifier's verdict does not say shouldAlert
\* and shouldAlert(FIRESTORE_ERROR, context) is false.
C35_PersistenceAlertOnlyWhenExhausted ==
    (QuietContext /\ ~saCtx.retriesExhausted)
       => /\ saVerdict.type = "FIRESTORE_ERROR" => ~saVerdict.shouldAlert
          /\ (saResult # "none" /\ saType = "FIRESTORE_ERROR") => saResult = "false"

\* C36: for a PARSE_ERROR and for a single NETWORK_ERROR the classifier's
\* verdict does not say shouldAlert, and shouldAlert of either type is false
\* unless the context reports a crash or two consecutive zero-job runs.
C36_SingleFailureNeverAlerts ==
    /\ saVerdict.type \in { "PARSE_ERROR", "NETWORK_ERROR" } => ~saVerdict.shouldAlert
    /\ (QuietContext /\ saResult # "none" /\ saType \in { "PARSE_ERROR", "NETWORK_ERROR" })
          => saResult = "false"

(***************************************************************************)
(* Properties of the entry point (specification SpecProcess).              *)
(***************************************************************************)
Ended == procPc = "exited" /\ procCause # "none"

C22_CleanupBeforeExit ==
    /\ (Ended /\ procCause \in Signals) => procReleases > 0
    /\ (Ended /\ procCause \in Escapes)
          => /\ procReleases > 0
             /\ procExitCode = 1
             /\ procLogged # "none"

(***************************************************************************)
(* Properties of calculateRunStatus (specification SpecStatus).            *)
(***************************************************************************)
StructuralFailure == runMetrics.structureErrors > 0
UnexpectedZero == runMetrics.jobsFound = 0 /\ ~runMetrics.expectedZeroJobs
SomeSoftError == runMetrics.networkErrors > 0 \/ runMetrics.parseErrors > 0

\* C26 as stated: the status is failed if a structural error occurred or zero
\* jobs were found unexpectedly; otherwise partial if a job was saved and a
\* network or parse error occurred; otherwise success if a job was saved;
\* otherwise failed.
C26_StatusRuleAsStated ==
    runStatus \notin { "none", "done" } =>
       runStatus = IF StructuralFailure \/ UnexpectedZero THEN "FAILED"
                   ELSE IF runMetrics.jobsSaved > 0 /\ SomeSoftError THEN "PARTIAL"
                   ELSE IF runMetrics.jobsSaved > 0 THEN "SUCCESS"
                   ELSE "FAILED"

\* C26: the status is failed if a structural error occurred, the scraper
\* crashed or zero jobs were found unexpectedly; otherwise partial if a job was
\* saved and a network or parse error occurred; otherwise success if a job was
\* saved; otherwise failed.  Success and partial imply a saved job, no
\* structural error and no crash.
C26_StatusRule ==
    runStatus \notin { "none", "done" } =>
       /\ (StructuralFailure \/ runMetrics.scraperCrashed \/ UnexpectedZero)
             => runStatus = "FAILED"
       /\ ~(StructuralFailure \/ runMetrics.scraperCrashed \/ UnexpectedZero)
             => /\ (runMetrics.jobsSaved > 0 /\ SomeSoftError) => runStatus = "PARTIAL"
                /\ (runMetrics.jobsSaved > 0 /\ ~SomeSoftError) => runStatus = "SUCCESS"
                /\ runMetrics.jobsSaved = 0 => runStatus = "FAILED"
       /\ runStatus \in { "SUCCESS", "PARTIAL" }
             => /\ runMetrics.jobsSaved > 0
                /\ ~StructuralFailure
                /\ ~runMetrics.scraperCrashed

\* a run that saved its jobs cleanly and then crashed is failed
C26_Witness ==
    /\ runStatus = "FAILED"
    /\ runMetrics.scraperCrashed
    /\ ~StructuralFailure
    /\ ~SomeSoftError
    /\ runMetrics.jobsFound = 2
    /\ runMetrics.jobsSaved = 2

(***************************************************************************)
(* Properties of the runtime mode (specification SpecConfig).              *)
(***************************************************************************)
\* the values of NODE_ENV that ask for production
ProductionSpellings == { EnvProduction, EnvProductionUpper, EnvProd, EnvProdMixed }
StagingSpellings == { EnvStaging, EnvStagingUpper }
SettingMissing(key) == processEnv[key] \in { Null, << >> }

\* C27: initRuntimeConfig ends the process with a failure exit iff the mode is
\* production and a required setting (FIREBASE_SERVICE_ACCOUNT, ALERT_EMAIL)
\* is missing; the mode is production only when NODE_ENV names it, development
\* when NODE_ENV is unset or unrecognized, and in development and staging
\* initRuntimeConfig never aborts.
C27_AbortsOnlyMisconfiguredProduction ==
    /\ RUNTIME_MODE = "production" <=> processEnv.NODE_ENV \in ProductionSpellings
    /\ RUNTIME_MODE = "staging" <=> processEnv.NODE_ENV \in StagingSpellings
    /\ processEnv.NODE_ENV \notin ProductionSpellings \cup StagingSpellings
          => RUNTIME_MODE = "development"
    /\ cfgPc \in { "initialized", "exited" }
          => /\ cfgPc = "exited"
                  <=> /\ RUNTIME_MODE = "production"
                      /\ SettingMissing("FIREBASE_SERVICE_ACCOUNT")
                            \/ SettingMissing("ALERT_EMAIL")
             /\ cfgPc = "exited" <=> cfgExitCode = 1
             /\ cfgPc = "initialized" <=> cfgExitCode = -1

\* NODE_ENV=PRODUCTION with the service account set and ALERT_EMAIL empty: the
\* process is ended with code 1
C27_Witness ==
    /\ cfgPc = "exited"
    /\ cfgExitCode = 1
    /\ processEnv.NODE_ENV = EnvProductionUpper
    /\ processEnv.FIREBASE_SERVICE_ACCOUNT = << "x" >>
    /\ processEnv.ALERT_EMAIL = << >>

(***************************************************************************)
(* Properties of normalizeJobData (specification SpecNormalize).           *)
(***************************************************************************)
\* the fields of a job record that are not timestamps
StableFields == { "advtNo", "postName", "department", "totalPosts", "qualification",
                  "lastDate", "pdfUrl", "status", "dataComplete", "sourceUrl",
                  "parsingErrors" }

\* C28: normalization is idempotent: normalizeJobData applied to a record it
\* returned gives the same value for every field except the timestamps.
C28_NormalizationIdempotent ==
    normPc = "twice" => \A f \in StableFields : normTwice[f] = normOnce[f]

\* C29: in every record normalizeJobData returns, status is "expired" iff the
\* record's lastDate is before the day of the normalization and "active"
\* otherwise; a last date defaulted to +30 days gives "active".
C29_StatusFollowsLastDate ==
    normPc \in { "once", "twice" } =>
       /\ normOnce.status = "expired" <=> DateBefore(normOnce.lastDate, Today)
       /\ normOnce.status = "active" <=> ~DateBefore(normOnce.lastDate, Today)
       /\ normRaw.lastDate \in { Null, DateWord }
             => /\ normOnce.lastDate = AddDays(Today, 30)
                /\ normOnce.status = "active"

\* C30: normalizeJobData returns, for every raw record, a record with a
\* non-empty advtNo, postName, department and qualification, totalPosts >= 1, a
\* lastDate, a status of active or expired, and a dataComplete that is false
\* only when the raw record's dataComplete was false.
C30_AlwaysUsableRecord ==
    normPc \in { "once", "twice" } =>
       /\ \A f \in { "advtNo", "postName", "department", "qualification" } :
             Truthy(normOnce[f])
       /\ normOnce.totalPosts >= 1
       /\ normOnce.lastDate # NoDate /\ ValidDate(normOnce.lastDate)
       /\ normOnce.status \in { "active", "expired" }
       /\ normOnce.dataComplete \in BOOLEAN
       /\ normOnce.dataComplete = FALSE <=> normRaw.dataComplete = "false"

====
